---- MODULE Spec2Model ----
(***************************************************************************)
(* DubmixAI: the offline mix (AudioService.exportMix), the WAV writer      *)
(* (AudioService.bufferToWave), the raw PCM reader                         *)
(* (AudioService.rawPcmToAudioBuffer), the decoders (decodeBase64,         *)
(* decodeFile) and trimSilence of src/src/services/audioService.ts, and    *)
(* the preview (playAudio, stopAudio) of src/src/App.tsx.                  *)
(*                                                                         *)
(* Numbers.  A sample is a rational: a buffer carries the denominator      *)
(* `den` of its samples and stores the numerators.  A time is a rational   *)
(* number of seconds: an integer number of ticks, TimeDen ticks a second.  *)
(* Every product stays below 2^31.  The arithmetic is exact: the rounding  *)
(* of JavaScript's doubles and of the Float32 samples is not modelled.     *)
(* Every buffer of a mix has the rate of the audio context, 24000 Hz, as   *)
(* decodeAudioData and rawPcmToAudioBuffer(bytes, 24000) produce it.       *)
(***************************************************************************)
EXTENDS Integers, Sequences, FiniteSets, TLC

VARIABLES
    pc,               \* position of the modelled call
    originalBuffer,   \* ProjectState.originalBuffer, exportMix's first argument
    segments,         \* exportMix's second argument
    backgroundVolume, \* exportMix's third argument (numerator over GainDen)
    offlineCtx,       \* the OfflineAudioContext built by exportMix
    renderedBuffer,   \* the result of offlineCtx.startRendering()
    abuffer,          \* bufferToWave's argument
    blob,             \* the bytes of the Blob returned by bufferToWave
    pcmBuffer,        \* the result of rawPcmToAudioBuffer
    base64Data,       \* decodeBase64's argument, a string of characters
    containerAudio,   \* what decodeAudioData makes of the speech bytes
    file,             \* decodeFile's argument
    attempts,         \* the decoders decodeBase64 has called, in order
    audioBuffer,      \* the buffer a decoder has returned
    error,            \* the error a decoder has thrown
    trimmedAgain      \* trimSilence of the returned buffer

decodeVars == <<base64Data, containerAudio, file, attempts, audioBuffer,
                error, trimmedAgain>>

VARIABLES
    mounted,          \* the App component is mounted
    ctxState,         \* audioContextRef.current.state
    isPlaying,        \* the isPlaying state of App
    currentTime,      \* the currentTime state of App, in ticks
    waiting,          \* the playAudio calls awaiting audioContext.resume()
    sourceNodeRef,    \* sourceNodeRef.current
    ttsNodesRef,      \* ttsNodesRef.current
    started,          \* the source nodes started and not stopped
    calls,            \* the number of playAudio calls so far
    lastCommand       \* the last command of the user

previewVars == <<mounted, ctxState, isPlaying, currentTime, waiting,
                 sourceNodeRef, ttsNodesRef, started, calls, lastCommand>>

VARIABLES
    operation,        \* what retryOperation's operation does at each invocation
    maxRetries,       \* retryOperation's second argument
    baseDelay,        \* retryOperation's third argument, in milliseconds
    retried           \* what the call of retryOperation came to

retryVars == <<operation, maxRetries, baseDelay, retried>>

VARIABLES
    status,           \* ProjectState.status
    progress,         \* ProjectState.progress
    stateError,       \* ProjectState.error
    uploading,        \* the handleFileUpload calls awaiting decodeFile
    transcribing,     \* the handleTranscribe calls awaiting transcribeAudio
    translating,      \* the handleTranslate calls awaiting translateAllSegments
    dubbing           \* the handleDubbing calls and where their loops stand

workflowVars == <<status, progress, stateError, uploading, transcribing,
                  translating, dubbing>>

vars == <<pc, originalBuffer, segments, backgroundVolume, offlineCtx,
          renderedBuffer, abuffer, blob, pcmBuffer, decodeVars, previewVars,
          retryVars, workflowVars>>

----------------------------------------------------------------------------
(* Bounds of the model *)

SampleDen == 20        \* denominator of the input samples (a step of 0.05)
GainDen == 2           \* denominator of backgroundVolume
TicksPerFrame == 2     \* ticks of time per frame of the audio context
MaxWavFrames == 46     \* longest buffer given to bufferToWave on its own
MaxOrigFrames == 3     \* longest original buffer of a mix
MaxSegFrames == 3      \* longest segment audio of a mix
MaxTime == 5           \* latest segment end, in ticks
MaxSegs == 2           \* most segments of a mix
slotTolerance == 1     \* the tolerance the specification speaks of, in ticks

\* new AudioContext({ sampleRate: 24000 }): the rate of every buffer the
\* application decodes (decodeAudioData resamples to it) or synthesizes
ContextRate == 24000

\* ticks per second
TimeDen == TicksPerFrame * ContextRate

----------------------------------------------------------------------------
(* Arithmetic of the platform *)

Max(a, b) == IF a >= b THEN a ELSE b
Min(a, b) == IF a <= b THEN a ELSE b
Abs(a) == IF a >= 0 THEN a ELSE -a

\* truncation toward zero of a / b (b > 0): what `| 0` does to a quotient
Trunc(a, b) == IF a >= 0 THEN a \div b ELSE -((-a) \div b)

\* the least integer >= a / b (a >= 0, b > 0)
CeilDiv(a, b) == (a + b - 1) \div b

\* DataView.setUint16 / setInt16 keep the low 16 bits of the value
ToUint16(data) == data % 65536

\* DataView.setUint32 keeps the low 32 bits; every value written here lies in
\* 0 .. 2^31 - 1 and is its own low 32 bits
ToUint32(data) == data

\* littleEndian = true: byte i of u, least significant byte first
LEByte(u, i) == (u \div (2 ^ (8 * i))) % 256

\* the unsigned little-endian integer of `width` bytes at byte offset `at`
ReadUint(bytes, at, width) ==
    LET RECURSIVE Rd(_)
        Rd(i) == IF i = width THEN 0
                 ELSE bytes[at + i + 1] * (2 ^ (8 * i)) + Rd(i + 1)
    IN Rd(0)

\* an element of an Int16Array over the bytes: signed, little-endian
ReadInt16(bytes, at) ==
    LET u == ReadUint(bytes, at, 2)
    IN IF u >= 32768 THEN u - 65536 ELSE u

----------------------------------------------------------------------------
(* AudioBuffer *)

Null == [sampleRate |-> 0, numberOfChannels |-> 0, den |-> 1, data |-> <<>>]

\* no error thrown
NoError == [name |-> "", message |-> <<>>]

\* no file chosen
NoFile == [audio |-> Null, failure |-> NoError]

\* the decoders have not been called
DecodeIdle ==
    /\ base64Data = <<>>
    /\ containerAudio = Null
    /\ file = NoFile
    /\ attempts = <<>>
    /\ audioBuffer = Null
    /\ error = NoError
    /\ trimmedAgain = Null

\* no source node: the null of sourceNodeRef
NoNode ==
    [call |-> 0, seg |-> 0, delay |-> 0, offset |-> [num |-> 0, den |-> 1],
     rate |-> [num |-> 1, den |-> 1]]

\* no command yet
NoCommand == [op |-> "none", time |-> 0]

\* the preview has not been used
PreviewIdle ==
    /\ mounted = TRUE
    /\ ctxState = "suspended"
    /\ isPlaying = FALSE
    /\ currentTime = 0
    /\ waiting = <<>>
    /\ sourceNodeRef = NoNode
    /\ ttsNodesRef = <<>>
    /\ started = {}
    /\ calls = 0
    /\ lastCommand = NoCommand

\* lastError before any attempt has failed
Undefined ==
    [name |-> "undefined", status |-> 0, responseStatus |-> 0,
     message |-> <<>>]

\* a call of retryOperation that has not begun
NotRetried ==
    [at |-> "idle", i |-> 0, lastError |-> Undefined, invocations |-> 0,
     delays |-> <<>>, returned |-> FALSE, thrown |-> Undefined]

\* retryOperation has not been called
RetryIdle ==
    /\ operation = <<>>
    /\ maxRetries = 0
    /\ baseDelay = 0
    /\ retried = NotRetried

\* the initial ProjectState of App, with no handler running
WorkflowIdle ==
    /\ status = "IDLE"
    /\ progress = [num |-> 0, den |-> 1]
    /\ stateError = <<>>
    /\ uploading = {}
    /\ transcribing = {}
    /\ translating = {}
    /\ dubbing = {}

\* AudioBuffer.length
Length(b) == IF b.numberOfChannels = 0 THEN 0 ELSE Len(b.data[1])

\* AudioBuffer.getChannelData(c)[k], channel and frame counted from 0
Sample(b, c, k) == b.data[c + 1][k + 1]

\* the sample values the inputs are drawn from, as numerators over SampleDen:
\* -1.4, -1, -0.9, -0.5, -0.3, -0.05, 0, 0.05, 0.3, 0.5, 0.9, 1, 1.4
SampleVals == <<-28, -20, -18, -10, -6, -1, 0, 1, 6, 10, 18, 20, 28>>

\* a buffer of n frames whose samples walk through SampleVals
PatternBuffer(rate, chans, n, offs, stride) ==
    [sampleRate |-> rate, numberOfChannels |-> chans, den |-> SampleDen,
     data |-> [c \in 1..chans |->
                 [k \in 1..n |->
                    SampleVals[((offs + stride * (k - 1) + 5 * (c - 1))
                                  % Len(SampleVals)) + 1]]]]

----------------------------------------------------------------------------
(* AudioService.bufferToWave *)

\* the writer state of bufferToWave: the DataView and the cursor `pos`
\* function setUint16(data) { view.setUint16(pos, data, true); pos += 2; }
SetUint16(w, data) ==
    [view |-> [w.view EXCEPT ![w.pos + 1] = LEByte(ToUint16(data), 0),
                             ![w.pos + 2] = LEByte(ToUint16(data), 1)],
     pos |-> w.pos + 2]

\* function setUint32(data) { view.setUint32(pos, data, true); pos += 4; }
SetUint32(w, data) ==
    [view |-> [w.view EXCEPT ![w.pos + 1] = LEByte(ToUint32(data), 0),
                             ![w.pos + 2] = LEByte(ToUint32(data), 1),
                             ![w.pos + 3] = LEByte(ToUint32(data), 2),
                             ![w.pos + 4] = LEByte(ToUint32(data), 3)],
     pos |-> w.pos + 4]

\* view.setInt16(at, data, true)
SetInt16(view, at, data) ==
    [view EXCEPT ![at + 1] = LEByte(ToUint16(data), 0),
                 ![at + 2] = LEByte(ToUint16(data), 1)]

\* a conversion without the clamp
SampleToInt16_NoClamp(n, den) ==
    IF den + 2 * n < 0 THEN Trunc(n * 32768, den) ELSE Trunc(n * 32767, den)

\* sample = Math.max(-1, Math.min(1, x));
\* sample = (0.5 + sample < 0 ? sample * 32768 : sample * 32767) | 0;
\* for the sample x = n / den
SampleToInt16(n, den) ==
    LET sample == Max(-den, Min(den, n))
    IN IF den + 2 * sample < 0 THEN Trunc(sample * 32768, den)
                               ELSE Trunc(sample * 32767, den)

\* a header whose byte rate leaves out the channel count
WriteHeader_MonoByteRate(b, length) ==
    LET numOfChan == b.numberOfChannels
        w0  == [view |-> [i \in 1..length |-> 0], pos |-> 0]
        w1  == SetUint32(w0, 1179011410)
        w2  == SetUint32(w1, length - 8)
        w3  == SetUint32(w2, 1163280727)
        w4  == SetUint32(w3, 544501094)
        w5  == SetUint32(w4, 16)
        w6  == SetUint16(w5, 1)
        w7  == SetUint16(w6, numOfChan)
        w8  == SetUint32(w7, b.sampleRate)
        w9  == SetUint32(w8, b.sampleRate * 2)
        w10 == SetUint16(w9, numOfChan * 2)
        w11 == SetUint16(w10, 16)
        w12 == SetUint32(w11, 1635017060)
    IN SetUint32(w12, length - w12.pos - 4)

\* the 44 header bytes: the writer after the last header setUint32
WriteHeader(b, length) ==
    LET numOfChan == b.numberOfChannels
        w0  == [view |-> [i \in 1..length |-> 0], pos |-> 0]
        w1  == SetUint32(w0, 1179011410)                \* "RIFF"
        w2  == SetUint32(w1, length - 8)
        w3  == SetUint32(w2, 1163280727)                \* "WAVE"
        w4  == SetUint32(w3, 544501094)                 \* "fmt "
        w5  == SetUint32(w4, 16)
        w6  == SetUint16(w5, 1)
        w7  == SetUint16(w6, numOfChan)
        w8  == SetUint32(w7, b.sampleRate)
        w9  == SetUint32(w8, b.sampleRate * 2 * numOfChan)
        w10 == SetUint16(w9, numOfChan * 2)
        w11 == SetUint16(w10, 16)
        w12 == SetUint32(w11, 1635017060)               \* "data"
    IN SetUint32(w12, length - w12.pos - 4)

\* for (i = 0; i < numOfChan; i++) { ... view.setInt16(44 + offset, ...) }
RECURSIVE ChannelLoop(_, _, _, _, _)
ChannelLoop(view, b, pos, offset, i) ==
    IF i < b.numberOfChannels
    THEN ChannelLoop(SetInt16(view, 44 + offset,
                              SampleToInt16(Sample(b, i, pos), b.den)),
                     b, pos, offset + 2, i + 1)
    ELSE view

\* while (pos < len) { ...; pos++ }: `pos` is the cursor the header left
RECURSIVE SampleLoop(_, _, _, _, _)
SampleLoop(view, b, len, pos, offset) ==
    IF pos < len
    THEN SampleLoop(ChannelLoop(view, b, pos, offset, 0), b, len, pos + 1,
                    offset + 2 * b.numberOfChannels)
    ELSE view

bufferToWave(b, len) ==
    LET length == len * b.numberOfChannels * 2 + 44
        w == WriteHeader(b, length)
    IN SampleLoop(w.view, b, len, w.pos, 0)

----------------------------------------------------------------------------
(* AudioService.rawPcmToAudioBuffer *)

rawPcmError_Truncating(bytes) ==
    IF Len(bytes) \div 2 = 0
    THEN [name |-> "NotSupportedError",
          message |-> <<"The number of frames provided (0) is less than or equal to the minimum bound (0)">>]
    ELSE NoError

\* what rawPcmToAudioBuffer throws on these bytes, NoError when it returns:
\* new Int16Array(arrayBuffer) throws a RangeError when the byte length is
\* odd, and createBuffer(1, 0, sampleRate) throws a NotSupportedError (an
\* AudioBuffer has at least one frame)
rawPcmError(bytes) ==
    IF Len(bytes) % 2 # 0
    THEN [name |-> "RangeError",
          message |-> <<"byte length of Int16Array should be a multiple of 2">>]
    ELSE IF Len(bytes) \div 2 = 0
    THEN [name |-> "NotSupportedError",
          message |-> <<"The number of frames provided (0) is less than or equal to the minimum bound (0)">>]
    ELSE NoError

rawPcmToAudioBuffer_BigEndian(bytes, sampleRate) ==
    IF rawPcmError(bytes) # NoError THEN Null
    ELSE [sampleRate |-> sampleRate, numberOfChannels |-> 1, den |-> 32768,
          data |-> << [i \in 1..(Len(bytes) \div 2) |->
                         LET u == 256 * bytes[2 * i - 1] + bytes[2 * i]
                         IN IF u >= 32768 THEN u - 65536 ELSE u] >>]

\* the buffer rawPcmToAudioBuffer returns, Null when it throws
rawPcmToAudioBuffer(bytes, sampleRate) ==
    IF rawPcmError(bytes) # NoError THEN Null
    ELSE [sampleRate |-> sampleRate, numberOfChannels |-> 1, den |-> 32768,
          data |-> << [i \in 1..(Len(bytes) \div 2) |->
                         ReadInt16(bytes, 2 * (i - 1))] >>]

\* the data chunk of a WAV file: the bytes from offset 44
DataChunk(bytes) == SubSeq(bytes, 45, Len(bytes))

----------------------------------------------------------------------------
(* The WAV writer on its own: every buffer, written and read back *)

WavRates == {24000, 44100}

WavInit ==
    /\ pc = "wav"
    /\ originalBuffer = Null
    /\ segments = <<>>
    /\ backgroundVolume = 0
    /\ offlineCtx = Null
    /\ renderedBuffer = Null
    /\ \E rate \in WavRates, chans \in 1..2, n \in 1..MaxWavFrames,
          offs \in 0..(Len(SampleVals) - 1), stride \in 1..2 :
          abuffer = PatternBuffer(rate, chans, n, offs, stride)
    /\ blob = <<>>
    /\ pcmBuffer = Null
    /\ DecodeIdle
    /\ PreviewIdle
    /\ RetryIdle
    /\ WorkflowIdle

Encode ==
    /\ pc = "wav"
    /\ blob' = bufferToWave(abuffer, Length(abuffer))
    /\ pc' = "encoded"
    /\ UNCHANGED <<originalBuffer, segments, backgroundVolume, offlineCtx,
                   renderedBuffer, abuffer, pcmBuffer, decodeVars,
                   previewVars,
                   retryVars, workflowVars>>

Decode ==
    /\ pc = "encoded"
    /\ pcmBuffer' = rawPcmToAudioBuffer(DataChunk(blob), abuffer.sampleRate)
    /\ pc' = "decoded"
    /\ UNCHANGED <<originalBuffer, segments, backgroundVolume, offlineCtx,
                   renderedBuffer, abuffer, blob, decodeVars,
                   previewVars,
                   retryVars, workflowVars>>

WavNext == Encode \/ Decode

SpecWav == WavInit /\ [][WavNext]_vars

----------------------------------------------------------------------------
(* AudioService.exportMix *)

RECURSIVE GCD(_, _)
GCD(a, b) == IF b = 0 THEN a ELSE GCD(b, a % b)

\* the rational n / d in lowest terms (n >= 0, d > 0)
Ratio(n, d) == LET g == GCD(n, d) IN [num |-> n \div g, den |-> d \div g]

\* AudioBuffer.duration = length / sampleRate seconds, as a rational
Duration(b) == Ratio(Length(b), b.sampleRate)

\* seg.endTime - seg.startTime, in ticks
SlotDuration(seg) == seg.endTime - seg.startTime

\* let totalDuration = originalBuffer.duration;
\* segments.forEach(seg => { if (seg.endTime > totalDuration) totalDuration = seg.endTime; });
RECURSIVE TotalDurationLoop(_, _, _)
TotalDurationLoop(total, segs, i) ==
    IF i > Len(segs) THEN total
    ELSE TotalDurationLoop(
            IF segs[i].endTime * total.den > total.num * TimeDen
            THEN Ratio(segs[i].endTime, TimeDen) ELSE total,
            segs, i + 1)

TotalDuration(original, segs) == TotalDurationLoop(Duration(original), segs, 1)

\* the length argument totalDuration * originalBuffer.sampleRate of
\* new OfflineContext(2, length, sampleRate): an unsigned long, so the
\* product loses its fraction
ContextLength(original, segs) ==
    LET total == TotalDuration(original, segs)
    IN (total.num * original.sampleRate) \div total.den

\* a rate that is never raised: the audio is never compressed
ExportRate_NoCompress(seg) == [num |-> 1, den |-> 1]

\* a rate that follows the slot in both directions: short audio is expanded
ExportRate_BothWays(seg) ==
    Ratio(Length(seg.audioBuffer) * TimeDen,
          SlotDuration(seg) * seg.audioBuffer.sampleRate)

\* let rate = 1.0;
\* if (originalDuration > slotDuration) rate = originalDuration / slotDuration;
ExportRate(seg) ==
    LET a == seg.audioBuffer
    IN IF Length(a) * TimeDen > SlotDuration(seg) * a.sampleRate
       THEN Ratio(Length(a) * TimeDen, SlotDuration(seg) * a.sampleRate)
       ELSE [num |-> 1, den |-> 1]

\* a background source without its gain node
BackgroundSource_NoGain(original, volume) ==
    [buffer |-> original, gain |-> GainDen,
     rate |-> [num |-> 1, den |-> 1], when |-> 0]

\* the background source: bgSource through bgGain, start(0)
BackgroundSource(original, volume) ==
    [buffer |-> original, gain |-> volume,
     rate |-> [num |-> 1, den |-> 1], when |-> 0]

\* a segment source started with the mix, not at the start of its slot
SegmentSource_AtZero(seg) ==
    [buffer |-> seg.audioBuffer, gain |-> GainDen,
     rate |-> ExportRate(seg), when |-> 0]

\* the source of one segment: connected to the destination, start(startTime)
SegmentSource(seg) ==
    [buffer |-> seg.audioBuffer, gain |-> GainDen,
     rate |-> ExportRate(seg), when |-> seg.startTime]

\* a loop that schedules no segment whose audio is shorter than a grain
RECURSIVE SegmentSources_SkipShort(_, _)
SegmentSources_SkipShort(segs, i) ==
    IF i > Len(segs) THEN <<>>
    ELSE (IF segs[i].audioBuffer # Null /\ Length(segs[i].audioBuffer) >= 2048
          THEN <<SegmentSource(segs[i])>>
          ELSE <<>>) \o SegmentSources_SkipShort(segs, i + 1)

\* segments.forEach((seg) => { if (seg.audioBuffer) { ... } })
RECURSIVE SegmentSources(_, _)
SegmentSources(segs, i) ==
    IF i > Len(segs) THEN <<>>
    ELSE (IF segs[i].audioBuffer # Null THEN <<SegmentSource(segs[i])>>
          ELSE <<>>) \o SegmentSources(segs, i + 1)

\* a context with the channel count of the original
BuildContext_OriginalChannels(original, segs, volume) ==
    [numberOfChannels |-> original.numberOfChannels,
     length |-> ContextLength(original, segs),
     sampleRate |-> original.sampleRate,
     sources |-> (IF volume > 0 THEN <<BackgroundSource(original, volume)>>
                  ELSE <<>>) \o SegmentSources(segs, 1)]

\* the context exportMix builds before it renders
BuildContext(original, segs, volume) ==
    [numberOfChannels |-> 2,
     length |-> ContextLength(original, segs),
     sampleRate |-> original.sampleRate,
     sources |-> (IF volume > 0 THEN <<BackgroundSource(original, volume)>>
                  ELSE <<>>) \o SegmentSources(segs, 1)]

----------------------------------------------------------------------------
(* OfflineAudioContext.startRendering, for AudioBufferSourceNodes *)

\* the first frame whose time is at or after start(when)
StartFrame(src, ctxRate) == CeilDiv(src.when * ctxRate, TimeDen)

\* frames of the buffer the playhead advances per rendered frame:
\* playbackRate * buffer.sampleRate / context.sampleRate
PlayStep(src, ctxRate) ==
    LET r == Ratio(src.buffer.sampleRate, ctxRate)
    IN Ratio(src.rate.num * r.num, src.rate.den * r.den)

\* the rendered frames the source sounds for: until the playhead leaves the
\* buffer
PlayFrames(src, ctxRate) ==
    LET step == PlayStep(src, ctxRate)
    IN CeilDiv(Length(src.buffer) * step.den, step.num)

\* the frames of the source that fall inside a context of ctxLength frames
PlacedFrames(src, ctxRate, ctxLength) ==
    Max(0, Min(PlayFrames(src, ctxRate), ctxLength - StartFrame(src, ctxRate)))

\* what the source adds to frame k of channel c (a mono buffer is up-mixed
\* to both channels), as a numerator over SampleDen * GainDen
Contribution(src, ctxRate, c, k) ==
    LET first == StartFrame(src, ctxRate)
        step == PlayStep(src, ctxRate)
        chan == IF src.buffer.numberOfChannels = 1 THEN 0 ELSE c
    IN IF k < first THEN 0
       ELSE IF k >= first + CeilDiv(Length(src.buffer) * step.den, step.num)
       THEN 0
       ELSE src.gain
              * Sample(src.buffer, chan, ((k - first) * step.num) \div step.den)

\* a mix in which a later source replaces the earlier ones where it sounds
RECURSIVE MixSum_LastWins(_, _, _, _, _)
MixSum_LastWins(sources, ctxRate, c, k, i) ==
    IF i > Len(sources) THEN 0
    ELSE LET later == MixSum_LastWins(sources, ctxRate, c, k, i + 1)
         IN IF later # 0 THEN later
            ELSE Contribution(sources[i], ctxRate, c, k)

RECURSIVE MixSum(_, _, _, _, _)
MixSum(sources, ctxRate, c, k, i) ==
    IF i > Len(sources) THEN 0
    ELSE Contribution(sources[i], ctxRate, c, k)
           + MixSum(sources, ctxRate, c, k, i + 1)

startRendering(ctx) ==
    [sampleRate |-> ctx.sampleRate,
     numberOfChannels |-> ctx.numberOfChannels,
     den |-> SampleDen * GainDen,
     data |-> [c \in 1..ctx.numberOfChannels |->
                 [k \in 1..ctx.length |->
                    MixSum(ctx.sources, ctx.sampleRate, c - 1, k - 1, 1)]]]

----------------------------------------------------------------------------
(* The export: exportMix called with a volume, and handleExport of App.tsx, *)
(* which calls it without one                                              *)

\* the segment audio the mixes are given: mono, at the context's rate
SegmentAudio == {Null} \cup
    {PatternBuffer(ContextRate, 1, n, 8, 1) : n \in {1, MaxSegFrames}}

Segment == [startTime : 0..(MaxTime - 1), endTime : 1..MaxTime,
            audioBuffer : SegmentAudio]

\* the timelines: start < end in every segment, in order of start time, no
\* two segments starting together (their windows may overlap)
SegmentLists ==
    UNION {{q \in [1..n -> Segment] :
              /\ \A i \in 1..n : q[i].startTime < q[i].endTime
              /\ \A i \in 1..(n - 1) : q[i].startTime < q[i + 1].startTime}
           : n \in 0..MaxSegs}

MixInit ==
    /\ pc = "mix"
    /\ \E chans \in 1..2, n \in {1, MaxOrigFrames} :
          originalBuffer = PatternBuffer(ContextRate, chans, n, 7, 1)
    /\ segments \in SegmentLists
    /\ backgroundVolume \in {0, 1}
    /\ offlineCtx = Null
    /\ renderedBuffer = Null
    /\ abuffer = Null
    /\ blob = <<>>
    /\ pcmBuffer = Null
    /\ DecodeIdle
    /\ PreviewIdle
    /\ RetryIdle
    /\ WorkflowIdle

Export(volume) ==
    LET ctx == BuildContext(originalBuffer, segments, volume)
        rendered == startRendering(ctx)
    IN /\ offlineCtx' = ctx
       /\ renderedBuffer' = rendered
       /\ abuffer' = rendered
       /\ blob' = bufferToWave(rendered, Length(rendered))

exportMix ==
    /\ pc = "mix"
    /\ backgroundVolume > 0
    /\ Export(backgroundVolume)
    /\ pc' = "exported"
    /\ UNCHANGED <<originalBuffer, segments, backgroundVolume, pcmBuffer,
                   decodeVars, previewVars,
                   retryVars, workflowVars>>

\* handleExport: exportMix(state.originalBuffer, state.segments.map(...)),
\* backgroundVolume takes its default 0.0
handleExport ==
    /\ pc = "mix"
    /\ originalBuffer # Null
    /\ backgroundVolume = 0
    /\ Export(0)
    /\ pc' = "exported"
    /\ UNCHANGED <<originalBuffer, segments, backgroundVolume, pcmBuffer,
                   decodeVars, previewVars,
                   retryVars, workflowVars>>

MixNext == exportMix \/ handleExport

SpecMix == MixInit /\ [][MixNext]_vars

----------------------------------------------------------------------------
(* The offline mix of every list of segments, in any order: the lists of   *)
(* a few overlapping windows, unsorted, equal windows included             *)

OrderWindows == {<<s, e>> : s \in {0, 1}, e \in {MaxTime - 1, MaxTime}}

OrderSegments ==
    {[startTime |-> w[1], endTime |-> w[2], audioBuffer |-> a] :
        w \in OrderWindows, a \in SegmentAudio}

OrderLists == UNION {[1..n -> OrderSegments] : n \in 0..MaxSegs}

OrderInit ==
    /\ pc = "mix"
    /\ \E chans \in 1..2 :
          originalBuffer = PatternBuffer(ContextRate, chans, MaxOrigFrames, 7, 1)
    /\ segments \in OrderLists
    /\ backgroundVolume \in {0, 1}
    /\ offlineCtx = Null
    /\ renderedBuffer = Null
    /\ abuffer = Null
    /\ blob = <<>>
    /\ pcmBuffer = Null
    /\ DecodeIdle
    /\ PreviewIdle
    /\ RetryIdle
    /\ WorkflowIdle

SpecOrder == OrderInit /\ [][MixNext]_vars

----------------------------------------------------------------------------
(* Reading a written file back *)

\* the 16-bit value of frame k, channel c of an interleaved data chunk
DataValue(bytes, chans, k, c) == ReadInt16(bytes, 44 + 2 * (k * chans + c))

\* the frames bufferToWave converts: the sample loop starts at the header's
\* cursor, and the value of frame k is stored as frame k - 44 of the data
ConvertedFrames(b) == {k \in 0..(Length(b) - 1) : k >= 44}

StoredValue(bytes, b, k, c) == DataValue(bytes, b.numberOfChannels, k - 44, c)

Written == pc \in {"encoded", "decoded", "exported"}

\* C3: every frame k and channel c of the buffer is stored, converted, as the
\* little-endian 16-bit value at byte offset 44 + 2 * (k * channelCount + c):
\* no frame is skipped and no data byte is left unwritten.
C3_EveryFrameWritten ==
    Written =>
        \A k \in 0..(Length(abuffer) - 1) :
            \A c \in 0..(abuffer.numberOfChannels - 1) :
                DataValue(blob, abuffer.numberOfChannels, k, c)
                    = SampleToInt16(Sample(abuffer, c, k), abuffer.den)

\* C4: the data chunk of the written file, read back as raw 16-bit PCM, has
\* the frame count of a mono buffer and every sample within one quantization
\* step (1/32768) of the buffer's sample, for samples within [-1, 1].
C4_RoundTrip ==
    (pc = "decoded" /\ abuffer.numberOfChannels = 1) =>
        /\ Length(pcmBuffer) = Length(abuffer)
        /\ \A k \in 0..(Length(abuffer) - 1) :
              Abs(Sample(abuffer, 0, k)) <= abuffer.den =>
                  Abs(Sample(pcmBuffer, 0, k) * abuffer.den
                        - Sample(abuffer, 0, k) * 32768) <= abuffer.den

\* the conversion the specification describes: negative times 32768,
\* non-negative times 32767, after the clamp, truncated toward zero
ScaleBySign(n, den) ==
    LET sample == Max(-den, Min(den, n))
    IN IF sample < 0 THEN Trunc(sample * 32768, den)
                     ELSE Trunc(sample * 32767, den)

\* C5: every converted sample is stored as trunc(v * 32768) when v < 0
\* (also for -0.5 <= v < 0) and as trunc(v * 32767) when v >= 0, v clamped.
C5_ScaleBySign ==
    Written =>
        \A k \in ConvertedFrames(abuffer) :
            \A c \in 0..(abuffer.numberOfChannels - 1) :
                StoredValue(blob, abuffer, k, c)
                    = ScaleBySign(Sample(abuffer, c, k), abuffer.den)

C7_HeaderConsistent ==
    Written =>
        LET dataSize == Length(abuffer) * abuffer.numberOfChannels * 2
        IN /\ Len(blob) = 44 + dataSize
           /\ ReadUint(blob, 40, 4) = dataSize
           /\ ReadUint(blob, 4, 4) = 36 + dataSize
           /\ ReadUint(blob, 16, 4) = 16
           /\ ReadUint(blob, 20, 2) = 1
           /\ ReadUint(blob, 22, 2) = abuffer.numberOfChannels
           /\ ReadUint(blob, 24, 4) = abuffer.sampleRate
           /\ ReadUint(blob, 28, 4)
                 = abuffer.sampleRate * abuffer.numberOfChannels * 2
           /\ ReadUint(blob, 32, 2) = abuffer.numberOfChannels * 2
           /\ ReadUint(blob, 34, 2) = 16
           /\ SubSeq(blob, 1, 4) = <<82, 73, 70, 70>>
           /\ SubSeq(blob, 9, 16) = <<87, 65, 86, 69, 102, 109, 116, 32>>
           /\ SubSeq(blob, 37, 40) = <<100, 97, 116, 97>>

\* C7 happens: a stereo buffer long enough for the sample loop to run was
\* written after the header
C7_Witness ==
    /\ pc = "encoded"
    /\ abuffer.numberOfChannels = 2
    /\ ConvertedFrames(abuffer) # {}

----------------------------------------------------------------------------
(* The mix, segment by segment *)

Exported == pc = "exported"

HasAudio(i) == segments[i].audioBuffer # Null

\* the source exportMix scheduled for segment i: after the background source,
\* one for each earlier segment with audio
SourceOf(i) ==
    offlineCtx.sources[(IF backgroundVolume > 0 THEN 1 ELSE 0)
                         + Cardinality({j \in 1..i : HasAudio(j)})]

\* audio duration against slot duration, both scaled to integers
AudioScaled(i) == Length(segments[i].audioBuffer) * TimeDen
SlotScaled(i) == SlotDuration(segments[i]) * segments[i].audioBuffer.sampleRate

\* frame f is the frame of time t ticks: the first frame at or after it
FrameOfTime(f, t) ==
    /\ f * TimeDen >= t * offlineCtx.sampleRate
    /\ f * TimeDen < t * offlineCtx.sampleRate + TimeDen

\* p frames last t ticks within one frame
LastsWithinOneFrame(p, t) ==
    Abs(p * TimeDen - t * offlineCtx.sampleRate) <= TimeDen

\* the frames of the rendered mix in which anything sounds
SoundingFrames ==
    {k \in 0..(Length(renderedBuffer) - 1) : Sample(renderedBuffer, 0, k) # 0}

\* C1 as stated: every segment with audio whose duration differs from its
\* slot is placed from the frame of its start time and lasts the slot
\* duration within one frame.
C1_SlotAdherence ==
    Exported =>
        \A i \in 1..Len(segments) :
            (HasAudio(i) /\ AudioScaled(i) # SlotScaled(i)) =>
                LET src == SourceOf(i)
                    first == StartFrame(src, offlineCtx.sampleRate)
                IN /\ FrameOfTime(first, segments[i].startTime)
                   /\ LastsWithinOneFrame(
                         PlacedFrames(src, offlineCtx.sampleRate,
                                      offlineCtx.length),
                         SlotDuration(segments[i]))

\* C1 amended: a segment with audio is placed from the frame of its start
\* time; audio longer than its slot sounds for the slot duration within one
\* frame, audio not longer than its slot for its own length; each is cut
\* only by the end of the master buffer, and a lone segment sounds in exactly
\* those frames of the mix.
C1_SlotAdherenceOfLongAudio ==
    Exported =>
        \A i \in 1..Len(segments) :
            HasAudio(i) =>
                LET src == SourceOf(i)
                    first == StartFrame(src, offlineCtx.sampleRate)
                    p == PlayFrames(src, offlineCtx.sampleRate)
                    placed == Max(0, Min(p, Length(renderedBuffer) - first))
                IN /\ FrameOfTime(first, segments[i].startTime)
                   /\ IF AudioScaled(i) > SlotScaled(i)
                      THEN /\ LastsWithinOneFrame(p, SlotDuration(segments[i]))
                           /\ p * TimeDen >= SlotDuration(segments[i])
                                                * offlineCtx.sampleRate
                      ELSE p * segments[i].audioBuffer.sampleRate
                             = Length(segments[i].audioBuffer)
                                 * offlineCtx.sampleRate
                   /\ Len(offlineCtx.sources) = 1 =>
                         SoundingFrames = {k \in 0..(Length(renderedBuffer) - 1) :
                                              k >= first /\ k < first + placed}

\* C1 happens: an audio of 1.5 times its slot was mixed, alone, and sounds
\* for fewer frames than it has
C1_Witness ==
    /\ Exported
    /\ Len(offlineCtx.sources) = 1
    /\ \E i \in 1..Len(segments) :
          /\ HasAudio(i)
          /\ 2 * AudioScaled(i) = 3 * SlotScaled(i)
          /\ Cardinality(SoundingFrames) > 0
          /\ Cardinality(SoundingFrames) < Length(segments[i].audioBuffer)

\* C2 as stated: audio within slotTolerance of its slot is used unchanged,
\* any other audio is changed by audioDuration / slotDuration, whether it is
\* longer or shorter than the slot.
C2_StretchBothWays ==
    Exported =>
        \A i \in 1..Len(segments) :
            HasAudio(i) =>
                LET rate == SourceOf(i).rate
                IN IF Abs(AudioScaled(i) - SlotScaled(i))
                        <= slotTolerance * segments[i].audioBuffer.sampleRate
                   THEN rate.num = rate.den
                   ELSE rate.num * SlotScaled(i) = rate.den * AudioScaled(i)

\* C2 amended: audio not longer than its slot is used unchanged (rate 1, by
\* however much it is shorter); audio longer than its slot, by however
\* little, is compressed by audioDuration / slotDuration; the rate is never
\* below 1 and the source plays the segment's own buffer.
C2_CompressOnly ==
    Exported =>
        \A i \in 1..Len(segments) :
            HasAudio(i) =>
                LET src == SourceOf(i)
                IN /\ src.buffer = segments[i].audioBuffer
                   /\ src.rate.num >= src.rate.den
                   /\ IF AudioScaled(i) <= SlotScaled(i)
                      THEN src.rate.num = src.rate.den
                      ELSE src.rate.num * SlotScaled(i)
                             = src.rate.den * AudioScaled(i)

\* C2 happens: one mix holds an audio shorter than its slot by more than the
\* tolerance and an audio longer than its slot
C2_Witness ==
    /\ Exported
    /\ \E i \in 1..Len(segments) :
          /\ HasAudio(i)
          /\ SlotScaled(i) - AudioScaled(i)
                > slotTolerance * segments[i].audioBuffer.sampleRate
    /\ \E i \in 1..Len(segments) :
          HasAudio(i) /\ AudioScaled(i) > SlotScaled(i)

\* the latest segment end, in ticks (0 without segments)
MaxEndTime ==
    LET ends == {segments[i].endTime : i \in 1..Len(segments)}
    IN IF ends = {} THEN 0 ELSE CHOOSE e \in ends : \A x \in ends : x <= e

\* C8: the master buffer has ceil(totalDuration * sampleRate) frames, where
\* totalDuration = max(original.duration, latest segment end), so every slot
\* lies inside it up to its end.
C8_MasterLengthCeil ==
    Exported =>
        LET n == Length(renderedBuffer)
            rate == originalBuffer.sampleRate
        IN /\ n >= Length(originalBuffer)
           /\ n * TimeDen >= MaxEndTime * rate
           /\ \/ n = Length(originalBuffer)
              \/ (n - 1) * TimeDen < MaxEndTime * rate

\* C9 as stated: the mix has the channel count and the sample rate of the
\* original, in the rendered buffer and in the written header.
C9_ChannelsOfOriginal ==
    Exported =>
        /\ renderedBuffer.numberOfChannels = originalBuffer.numberOfChannels
        /\ renderedBuffer.sampleRate = originalBuffer.sampleRate
        /\ ReadUint(blob, 22, 2) = originalBuffer.numberOfChannels
        /\ ReadUint(blob, 24, 4) = originalBuffer.sampleRate

\* C9 amended: the mix always has 2 channels, whatever the channel count of
\* the original, and the sample rate of the original, in the rendered buffer
\* and in the written header.
C9_AlwaysStereo ==
    Exported =>
        /\ renderedBuffer.numberOfChannels = 2
        /\ Len(renderedBuffer.data) = 2
        /\ renderedBuffer.sampleRate = originalBuffer.sampleRate
        /\ ReadUint(blob, 22, 2) = 2
        /\ ReadUint(blob, 24, 4) = originalBuffer.sampleRate
        /\ Len(blob) = 44 + 4 * Length(renderedBuffer)

\* C9 happens: a mono original was mixed, audibly
C9_Witness ==
    /\ Exported
    /\ originalBuffer.numberOfChannels = 1
    /\ backgroundVolume > 0
    /\ SoundingFrames # {}

\* sample k of channel c of the background: the original, a mono original
\* on both channels, and nothing after its end
BackgroundSample(c, k) ==
    IF k >= Length(originalBuffer) THEN 0
    ELSE Sample(originalBuffer,
                IF originalBuffer.numberOfChannels = 1 THEN 0 ELSE c, k)

NoSegmentHasAudio == \A i \in 1..Len(segments) : ~HasAudio(i)

\* C10: when no segment has audio the export completes (the context has a
\* frame to render) and the mix is the background alone: the original times
\* backgroundVolume from frame 0, which is all zero for backgroundVolume = 0;
\* no source is scheduled for a segment without audio.
C10_GapFilling ==
    NoSegmentHasAudio =>
        /\ pc = "mix" => ContextLength(originalBuffer, segments) >= 1
        /\ Exported =>
              /\ Length(renderedBuffer) >= 1
              /\ Len(offlineCtx.sources) = IF backgroundVolume > 0 THEN 1 ELSE 0
              /\ \A c \in 0..(renderedBuffer.numberOfChannels - 1) :
                    \A k \in 0..(Length(renderedBuffer) - 1) :
                        /\ Sample(renderedBuffer, c, k)
                              * originalBuffer.den * GainDen
                             = BackgroundSample(c, k) * backgroundVolume
                                 * renderedBuffer.den
                        /\ backgroundVolume = 0 =>
                              Sample(renderedBuffer, c, k) = 0

\* C10 happens: a timeline of segments without audio, one of them ending
\* after the original, was mixed over an audible background
C10_Witness ==
    /\ Exported
    /\ Len(segments) >= 1
    /\ NoSegmentHasAudio
    /\ backgroundVolume > 0
    /\ Length(renderedBuffer) > Length(originalBuffer)

----------------------------------------------------------------------------
(* The mix as a sum *)

\* the segments with audio
AudioSegments == {i \in 1..Len(segments) : HasAudio(i)}

\* what segment i adds to frame k of channel c on its own
SegmentPart(i, c, k) ==
    Contribution(SegmentSource(segments[i]), offlineCtx.sampleRate, c, k)

\* what the background adds to frame k of channel c
BackgroundPart(c, k) ==
    IF backgroundVolume > 0
    THEN Contribution(BackgroundSource(originalBuffer, backgroundVolume),
                      offlineCtx.sampleRate, c, k)
    ELSE 0

RECURSIVE SumOver(_, _, _)
SumOver(S, c, k) ==
    IF S = {} THEN 0
    ELSE LET i == CHOOSE x \in S : TRUE
         IN SegmentPart(i, c, k) + SumOver(S \ {i}, c, k)

\* the orders of a list of n segments
Orders(n) ==
    {p \in [1..n -> 1..n] : \A a, b \in 1..n : p[a] = p[b] => a = b}

\* the windows of segments i and j overlap
Overlap(i, j) ==
    /\ segments[i].startTime < segments[j].endTime
    /\ segments[j].startTime < segments[i].endTime

\* C11: the export accepts every timeline, overlapping or not; each frame of
\* the mix is the background plus the sum of what each segment adds on its
\* own, and the mix is the same for every order of the segment list.
C11_AdditiveAnyOrder ==
    /\ pc = "mix" => ContextLength(originalBuffer, segments) >= 1
    /\ Exported =>
          /\ Len(offlineCtx.sources)
                = (IF backgroundVolume > 0 THEN 1 ELSE 0)
                    + Cardinality(AudioSegments)
          /\ \A c \in 0..(renderedBuffer.numberOfChannels - 1) :
                \A k \in 0..(Length(renderedBuffer) - 1) :
                    Sample(renderedBuffer, c, k)
                      = BackgroundPart(c, k) + SumOver(AudioSegments, c, k)
          /\ \A p \in Orders(Len(segments)) :
                LET ctx == BuildContext(originalBuffer,
                                        [i \in 1..Len(segments) |->
                                            segments[p[i]]],
                                        backgroundVolume)
                IN \/ ctx = offlineCtx
                   \/ startRendering(ctx) = renderedBuffer

\* C11 happens: two segments with overlapping windows were mixed and sound
\* together in a frame
C11_Witness ==
    /\ Exported
    /\ \E i, j \in AudioSegments :
          /\ i # j
          /\ Overlap(i, j)
          /\ \E k \in 0..(Length(renderedBuffer) - 1) :
                /\ SegmentPart(i, 0, k) # 0
                /\ SegmentPart(j, 0, k) # 0
                /\ Sample(renderedBuffer, 0, k)
                      = BackgroundPart(0, k) + SegmentPart(i, 0, k)
                          + SegmentPart(j, 0, k)

----------------------------------------------------------------------------
(* Audio shorter than a grain *)

\* the grain length G of the time-stretch engine the specification describes
GrainLength == 2048

\* the segments whose audio is shorter than one grain
ShortSegments == {i \in AudioSegments : Length(segments[i].audioBuffer) < GrainLength}

\* C19 as stated: the export fails rather than change the duration of an audio
\* shorter than one grain: no export completes with such an audio played at
\* another rate than 1.
C19_ShortInputFails ==
    Exported =>
        \A i \in ShortSegments :
            SourceOf(i).rate.num = SourceOf(i).rate.den

\* C19 amended: the export never fails for an audio shorter than one grain:
\* it schedules the whole audio, at rate audioDuration / slotDuration when it
\* is longer than its slot and at rate 1 otherwise, and the audio sounds for
\* at least one frame.
C19_ShortInputCompressed ==
    /\ pc = "mix" =>
          /\ ContextLength(originalBuffer, segments) >= 1
          /\ \A i \in ShortSegments : SlotDuration(segments[i]) > 0
    /\ Exported =>
          /\ Len(offlineCtx.sources)
                = (IF backgroundVolume > 0 THEN 1 ELSE 0)
                    + Cardinality(AudioSegments)
          /\ \A i \in ShortSegments :
                LET src == SourceOf(i)
                IN /\ src.buffer = segments[i].audioBuffer
                   /\ src.when = segments[i].startTime
                   /\ PlayFrames(src, offlineCtx.sampleRate) >= 1
                   /\ src.rate.num * Min(AudioScaled(i), SlotScaled(i))
                         = src.rate.den * AudioScaled(i)

\* C19 happens: an audio of fewer frames than a grain, longer than its slot,
\* was mixed at a raised rate
C19_Witness ==
    /\ Exported
    /\ \E i \in ShortSegments :
          /\ AudioScaled(i) > SlotScaled(i)
          /\ SourceOf(i).rate.num > SourceOf(i).rate.den

----------------------------------------------------------------------------
(* window.atob, on a string of characters.  A character is a number: 0..63 *)
(* are the characters of the base64 alphabet (their values), PadChar is    *)
(* '=', SpaceChar is a white space character, BadChar is any other.        *)

PadChar == 64
SpaceChar == 65
BadChar == 66

\* base64Data.replace(/\s/g, '')
StripSpace(str) == SelectSeq(str, LAMBDA ch : ch # SpaceChar)

\* forgiving-base64 decode: when the length is a multiple of 4, one or two
\* '=' at the end are removed
StripPadding(str) ==
    LET n == Len(str)
    IN IF n = 0 \/ n % 4 # 0 THEN str
       ELSE IF str[n] = PadChar /\ str[n - 1] = PadChar
       THEN SubSeq(str, 1, n - 2)
       ELSE IF str[n] = PadChar THEN SubSeq(str, 1, n - 1)
       ELSE str

\* byte j (from 0) of the bit string made of the 6-bit values of the
\* characters; the bits left over at the end are dropped
Base64Byte(str, j) ==
    LET q == (8 * j) \div 6
        r == (8 * j) % 6
        hi == str[q + 1]
        lo == str[q + 2]
    IN IF r = 0 THEN hi * 4 + lo \div 16
       ELSE IF r = 2 THEN (hi % 16) * 16 + lo \div 4
       ELSE (hi % 4) * 64 + lo

\* atob: ok is FALSE when it throws an InvalidCharacterError (a length of
\* 1 modulo 4 or a character outside the alphabet), else bytes holds the
\* char codes of the binary string
atob(str) ==
    LET data == StripPadding(str)
        n == Len(data)
    IN IF n % 4 = 1 \/ \E i \in 1..n : data[i] > 63
       THEN [ok |-> FALSE, bytes |-> <<>>]
       ELSE [ok |-> TRUE,
             bytes |-> [j \in 1..((6 * n) \div 8) |-> Base64Byte(data, j - 1)]]

\* the base64 text of a byte sequence, as the speech service sends it
btoa(bytes) ==
    LET n == Len(bytes)
        At(q) == IF q < n THEN bytes[q + 1] ELSE 0
        Char(i) == LET q == (6 * i) \div 8
                       r == (6 * i) % 8
                   IN IF r = 0 THEN At(q) \div 4
                      ELSE IF r = 6 THEN (At(q) % 4) * 16 + At(q + 1) \div 16
                      ELSE IF r = 4 THEN (At(q) % 16) * 4 + At(q + 1) \div 64
                      ELSE At(q) % 64
        chars == CeilDiv(8 * n, 6)
    IN [i \in 1..(4 * CeilDiv(chars, 4)) |->
          IF i <= chars THEN Char(i - 1) ELSE PadChar]

----------------------------------------------------------------------------
(* AudioService.trimSilence *)

\* Math.abs(data[k]) < threshold, threshold = 0.005 = 1 / 200
BelowThreshold(b, k) == Abs(Sample(b, 0, k)) * 200 < b.den

\* while (start < len && Math.abs(data[start]) < threshold) start++
RECURSIVE TrimStart_SkipFirst(_, _)
TrimStart_SkipFirst(b, start) ==
    IF start < Length(b) /\ (start = 0 \/ BelowThreshold(b, start))
    THEN TrimStart_SkipFirst(b, start + 1)
    ELSE start

RECURSIVE TrimStart(_, _)
TrimStart(b, start) ==
    IF start < Length(b) /\ BelowThreshold(b, start)
    THEN TrimStart(b, start + 1)
    ELSE start

\* while (end > start && Math.abs(data[end - 1]) < threshold) end--
TrimEnd_KeepTail(b, start, end) == end

RECURSIVE TrimEnd(_, _, _)
TrimEnd(b, start, end) ==
    IF end > start /\ BelowThreshold(b, end - 1)
    THEN TrimEnd(b, start, end - 1)
    ELSE end

\* frames [start, end) of every channel, in a new buffer of the same rate
\* and channel count
CopyFrames(b, start, end) ==
    [b EXCEPT !.data = [c \in 1..b.numberOfChannels |->
                          SubSeq(b.data[c], start + 1, end)]]

trimSilence_EmptyWhenSilent(b) ==
    LET start == TrimStart(b, 0)
        end == TrimEnd(b, start, Length(b))
    IN CopyFrames(b, start, end)

trimSilence(b) ==
    LET start == TrimStart(b, 0)
        end == TrimEnd(b, start, Length(b))
    IN IF start >= end THEN b ELSE CopyFrames(b, start, end)

----------------------------------------------------------------------------
(* AudioService.decodeBase64 and AudioService.decodeFile *)

MaxPcmFrames == 3      \* most frames of a decoded input

\* throw new Error(`Failed to decode generated audio. ...`)
FailedToDecode ==
    [name |-> "Error",
     message |-> <<"Failed to decode generated audio. The TTS output was invalid.">>]

\* throw new Error(`Browser could not decode this file. ...`)
CouldNotDecode ==
    [name |-> "Error",
     message |-> <<"Browser could not decode this file. Try converting to a standard MP3 or WAV.">>]

\* what decodeAudioData rejects with when it cannot decode the bytes
EncodingError ==
    [name |-> "EncodingError", message |-> <<"Unable to decode audio data">>]

\* error.message?.includes(part): a message is a sequence of its parts
Includes(message, part) == \E i \in 1..Len(message) : message[i] = part

\* one call of a decoder by decodeBase64, and how it ended
Attempt(decoder, err) == [decoder |-> decoder, error |-> err]

\* decodeBase64(base64Data), container being what decodeAudioData makes of
\* the bytes (Null when it rejects them): the decoders called, the result of
\* rawPcmToAudioBuffer, the buffer returned and the error thrown
decodeBase64Result_ContainerFirst(base64, container) ==
    LET binary == atob(StripSpace(base64))
        pcmError == rawPcmError(binary.bytes)
        pcm == rawPcmToAudioBuffer(binary.bytes, 24000)
    IN IF ~binary.ok
       THEN [attempts |-> <<>>, pcm |-> Null, buffer |-> Null,
             error |-> FailedToDecode]
       ELSE IF container # Null
       THEN [attempts |-> <<Attempt("decodeAudioData", NoError)>>,
             pcm |-> Null, buffer |-> trimSilence(container),
             error |-> NoError]
       ELSE IF pcmError = NoError
       THEN [attempts |-> <<Attempt("decodeAudioData", EncodingError),
                            Attempt("rawPcmToAudioBuffer", NoError)>>,
             pcm |-> pcm, buffer |-> trimSilence(pcm), error |-> NoError]
       ELSE [attempts |-> <<Attempt("decodeAudioData", EncodingError),
                            Attempt("rawPcmToAudioBuffer", pcmError)>>,
             pcm |-> Null, buffer |-> Null, error |-> FailedToDecode]

decodeBase64Result(base64, container) ==
    LET binary == atob(StripSpace(base64))
        pcmError == rawPcmError(binary.bytes)
        pcm == rawPcmToAudioBuffer(binary.bytes, 24000)
    IN IF ~binary.ok
       THEN [attempts |-> <<>>, pcm |-> Null, buffer |-> Null,
             error |-> FailedToDecode]
       ELSE IF pcmError = NoError
       THEN [attempts |-> <<Attempt("rawPcmToAudioBuffer", NoError)>>,
             pcm |-> pcm, buffer |-> trimSilence(pcm), error |-> NoError]
       ELSE IF container # Null
       THEN [attempts |-> <<Attempt("rawPcmToAudioBuffer", pcmError),
                            Attempt("decodeAudioData", NoError)>>,
             pcm |-> Null, buffer |-> trimSilence(container),
             error |-> NoError]
       ELSE [attempts |-> <<Attempt("rawPcmToAudioBuffer", pcmError),
                            Attempt("decodeAudioData", EncodingError)>>,
             pcm |-> Null, buffer |-> Null, error |-> FailedToDecode]

\* audioContext.decodeAudioData on a file whose audio is `audio` at its own
\* rate: the result has the rate of the context and the channels of the
\* file; its frames are taken here by holding the nearest earlier frame
\* (the interpolation is the browser's)
decodeAudioData(audio) ==
    [sampleRate |-> ContextRate,
     numberOfChannels |-> audio.numberOfChannels,
     den |-> audio.den,
     data |-> [c \in 1..audio.numberOfChannels |->
                 [k \in 1..CeilDiv(Length(audio) * ContextRate, audio.sampleRate)
                    |-> audio.data[c][((k - 1) * audio.sampleRate)
                                        \div ContextRate + 1]]]]

\* decodeFile(file): the buffer returned and the error thrown.  file.failure
\* is what file.arrayBuffer() or decodeAudioData rejects with
decodeFileResult_KeepDetail(f) ==
    IF f.failure = NoError
    THEN [buffer |-> decodeAudioData(f.audio), error |-> NoError]
    ELSE [buffer |-> Null, error |-> f.failure]

decodeFileResult(f) ==
    IF f.failure = NoError
    THEN [buffer |-> decodeAudioData(f.audio), error |-> NoError]
    ELSE IF f.failure.name = "EncodingError"
            \/ Includes(f.failure.message, "Decoding failed")
    THEN [buffer |-> Null, error |-> CouldNotDecode]
    ELSE [buffer |-> Null, error |-> f.failure]

----------------------------------------------------------------------------
(* The decoders on their own: every speech answer and every uploaded file *)

\* the 16-bit samples of the speech: silence, the two values around the
\* threshold 0.005 * 32768 = 163.84, and the extremes
PcmVals == {0, 163, 164, -164, 32767, -32768}

\* the bytes of an Int16Array of these samples, little-endian
PcmBytes(frames) ==
    [j \in 1..(2 * Len(frames)) |->
        LEByte(ToUint16(frames[(j + 1) \div 2]), (j + 1) % 2)]

PcmFrames == UNION {[1..n -> PcmVals] : n \in 0..MaxPcmFrames}

\* the speech bytes: whole samples, or whole samples and one byte more
SpeechBytes == {PcmBytes(fr) \o tail : fr \in PcmFrames, tail \in {<<>>, <<1>>}}

\* the text of the answer: the base64 of the bytes, the same with white
\* space in it, or with a character outside the alphabet; never the empty
\* string (handleDubbing: if (audioB64))
Base64Texts(bytes) ==
    {text \in {btoa(bytes),
               <<SpaceChar>> \o btoa(bytes) \o <<SpaceChar>>,
               btoa(bytes) \o <<BadChar>>} : text # <<>>}

\* what decodeAudioData makes of speech bytes: nothing, or a stereo buffer
ContainerAudios ==
    {Null} \cup {PatternBuffer(ContextRate, 2, n, offs, 1) :
                    n \in 1..MaxPcmFrames, offs \in 4..6}

FileRates == {24000, 48000}

Files ==
    {[audio |-> PatternBuffer(rate, chans, n, offs, 1), failure |-> NoError] :
        rate \in FileRates, chans \in 1..2, n \in 1..MaxPcmFrames,
        offs \in 4..6}
    \cup {[audio |-> Null, failure |-> e] :
            e \in {EncodingError,
                   [name |-> "Error",
                    message |-> <<"Decoding failed", ": unknown format">>],
                   [name |-> "NotReadableError",
                    message |-> <<"The file could not be read">>]}}

DecodeInit ==
    /\ originalBuffer = Null
    /\ segments = <<>>
    /\ backgroundVolume = 0
    /\ offlineCtx = Null
    /\ renderedBuffer = Null
    /\ abuffer = Null
    /\ blob = <<>>
    /\ pcmBuffer = Null
    /\ attempts = <<>>
    /\ audioBuffer = Null
    /\ error = NoError
    /\ trimmedAgain = Null
    /\ PreviewIdle
    /\ RetryIdle
    /\ WorkflowIdle
    /\ \/ /\ pc = "speech"
          /\ \E bytes \in SpeechBytes : base64Data \in Base64Texts(bytes)
          /\ containerAudio \in ContainerAudios
          /\ file = NoFile
       \/ /\ pc = "upload"
          /\ base64Data = <<>>
          /\ containerAudio = Null
          /\ file \in Files

\* handleDubbing: const buffer = await audioService.decodeBase64(audioB64)
decodeBase64 ==
    /\ pc = "speech"
    /\ LET r == decodeBase64Result(base64Data, containerAudio)
       IN /\ attempts' = r.attempts
          /\ pcmBuffer' = r.pcm
          /\ audioBuffer' = r.buffer
          /\ error' = r.error
    /\ pc' = "decodedSpeech"
    /\ UNCHANGED <<originalBuffer, segments, backgroundVolume, offlineCtx,
                   renderedBuffer, abuffer, blob, base64Data, containerAudio,
                   file, trimmedAgain,
                   previewVars,
                   retryVars, workflowVars>>

\* handleFileUpload: const buffer = await audioService.decodeFile(file)
decodeFile ==
    /\ pc = "upload"
    /\ LET r == decodeFileResult(file)
       IN /\ audioBuffer' = r.buffer
          /\ error' = r.error
    /\ pc' = "decodedFile"
    /\ UNCHANGED <<originalBuffer, segments, backgroundVolume, offlineCtx,
                   renderedBuffer, abuffer, blob, pcmBuffer, base64Data,
                   containerAudio, file, attempts, trimmedAgain,
                   previewVars,
                   retryVars, workflowVars>>

\* trimSilence applied to a buffer decodeBase64 has returned
TrimAgain ==
    /\ pc = "decodedSpeech"
    /\ audioBuffer # Null
    /\ trimmedAgain' = trimSilence(audioBuffer)
    /\ pc' = "trimmedAgain"
    /\ UNCHANGED <<originalBuffer, segments, backgroundVolume, offlineCtx,
                   renderedBuffer, abuffer, blob, pcmBuffer, base64Data,
                   containerAudio, file, attempts, audioBuffer, error,
                   previewVars,
                   retryVars, workflowVars>>

DecodeNext == decodeBase64 \/ decodeFile \/ TrimAgain

SpecDecode == DecodeInit /\ [][DecodeNext]_vars

----------------------------------------------------------------------------
(* The decoders: their properties *)

\* decodeBase64 has returned or thrown
DecodedSpeech == pc \in {"decodedSpeech", "trimmedAgain"}

\* the bytes decodeBase64 hands to the decoders
Binary == atob(StripSpace(base64Data))

\* rawPcmToAudioBuffer has been called on the bytes
RawPcmCalled == DecodedSpeech /\ Binary.ok

\* the buffer is the raw PCM reading of these bytes: one channel, a frame
\* for every two bytes at 24000 Hz, frame i the little-endian signed 16-bit
\* integer at bytes [2i, 2i+1] over 32768, in [-1, 1)
IsPcmOf(b, bytes) ==
    /\ b # Null
    /\ b.numberOfChannels = 1
    /\ b.sampleRate = 24000
    /\ b.den = 32768
    /\ Length(b) = Len(bytes) \div 2
    /\ \A i \in 0..(Length(b) - 1) :
          /\ Sample(b, 0, i) >= -32768
          /\ Sample(b, 0, i) < 32768
          /\ Sample(b, 0, i) % 256 = bytes[2 * i + 1]
          /\ (Sample(b, 0, i) \div 256) % 256 = bytes[2 * i + 2]

\* C12 as stated: for every byte sequence of even length the raw PCM
\* decoder returns a single-channel buffer of byteLength / 2 frames at the
\* given rate, frame i being the little-endian signed 16-bit integer at
\* bytes [2i, 2i+1] divided by 32768.
C12_EveryEvenLength ==
    (RawPcmCalled /\ Len(Binary.bytes) % 2 = 0)
        => IsPcmOf(pcmBuffer, Binary.bytes)

\* C12 amended: that holds for every byte sequence of even length but the
\* empty one; for the empty one the decoder throws (an AudioBuffer of 0
\* frames cannot be created) and returns no buffer.
C12_EveryNonEmptyEvenLength ==
    (RawPcmCalled /\ Len(Binary.bytes) % 2 = 0)
        => IF Len(Binary.bytes) > 0
           THEN /\ IsPcmOf(pcmBuffer, Binary.bytes)
                /\ attempts = <<Attempt("rawPcmToAudioBuffer", NoError)>>
           ELSE /\ pcmBuffer = Null
                /\ attempts[1].decoder = "rawPcmToAudioBuffer"
                /\ attempts[1].error.name = "NotSupportedError"

C12_Witness ==
    /\ RawPcmCalled
    /\ Len(Binary.bytes) = 2 * MaxPcmFrames
    /\ IsPcmOf(pcmBuffer, Binary.bytes)
    /\ \E i, j \in 0..(Length(pcmBuffer) - 1) :
          /\ Sample(pcmBuffer, 0, i) = -164
          /\ Sample(pcmBuffer, 0, j) = 32767

\* C13: raw PCM decoding of a byte sequence of odd length fails explicitly
\* and produces no buffer; no buffer built from the bytes truncated or
\* padded is ever returned (a buffer returned after the failure is the
\* container decoder's).
C13_OddLengthFails ==
    (RawPcmCalled /\ Len(Binary.bytes) % 2 = 1)
        => /\ pcmBuffer = Null
           /\ attempts[1].decoder = "rawPcmToAudioBuffer"
           /\ attempts[1].error.name = "RangeError"
           /\ \/ audioBuffer = Null /\ error # NoError
              \/ /\ containerAudio # Null
                 /\ audioBuffer = trimSilence(containerAudio)
                 /\ attempts[2] = Attempt("decodeAudioData", NoError)

C13_Witness ==
    /\ RawPcmCalled
    /\ Len(Binary.bytes) = 2 * MaxPcmFrames + 1
    /\ pcmBuffer = Null
    /\ audioBuffer = Null
    /\ error = FailedToDecode

\* C14: the raw PCM interpretation of the speech bytes is attempted first;
\* the container decoder is called only after the raw PCM attempt has
\* failed, never when it succeeded; when both fail the operation throws
\* and returns no buffer.
C14_RawPcmFirst ==
    RawPcmCalled
        => /\ Len(attempts) \in {1, 2}
           /\ attempts[1].decoder = "rawPcmToAudioBuffer"
           /\ Len(attempts) = 2 <=> attempts[1].error # NoError
           /\ Len(attempts) = 1
                 => /\ audioBuffer = trimSilence(pcmBuffer)
                    /\ audioBuffer.numberOfChannels = 1
                    /\ error = NoError
           /\ Len(attempts) = 2
                 => /\ attempts[2].decoder = "decodeAudioData"
                    /\ attempts[2].error = NoError <=> containerAudio # Null
                    /\ IF attempts[2].error = NoError
                       THEN audioBuffer = trimSilence(containerAudio)
                            /\ error = NoError
                       ELSE audioBuffer = Null /\ error = FailedToDecode

C14_Witness ==
    /\ RawPcmCalled
    /\ Len(attempts) = 2
    /\ attempts[1].error # NoError
    /\ attempts[2].error # NoError
    /\ audioBuffer = Null
    /\ error = FailedToDecode

\* decodeFile has returned or thrown
DecodedFile == pc = "decodedFile"

\* every part of the decoder's message is in the message thrown
CarriesDetail(thrown, original) ==
    \A i \in 1..Len(original.message) :
        Includes(thrown.message, original.message[i])

\* C15 as stated: a failure of the container decoder is reported with the
\* original error's detail in it, and on success the buffer keeps the
\* channel count and the sample rate of the source.
C15_DetailAndNativeRate ==
    DecodedFile
        => IF file.failure # NoError
           THEN audioBuffer = Null /\ CarriesDetail(error, file.failure)
           ELSE /\ audioBuffer.numberOfChannels = file.audio.numberOfChannels
                /\ audioBuffer.sampleRate = file.audio.sampleRate

\* C15 amended: an EncodingError, or an error whose message contains
\* 'Decoding failed', is replaced by an Error with a fixed message that
\* holds nothing of the original; any other error is thrown again as it
\* is; on success the buffer keeps the channel count of the source and has
\* the rate of the audio context, 24000 Hz.
C15_FixedMessageAndContextRate ==
    DecodedFile
        => IF file.failure # NoError
           THEN /\ audioBuffer = Null
                /\ IF file.failure.name = "EncodingError"
                      \/ Includes(file.failure.message, "Decoding failed")
                   THEN /\ error = CouldNotDecode
                        /\ ~CarriesDetail(error, file.failure)
                   ELSE error = file.failure
           ELSE /\ error = NoError
                /\ audioBuffer.numberOfChannels = file.audio.numberOfChannels
                /\ audioBuffer.sampleRate = ContextRate
                /\ Length(audioBuffer) * file.audio.sampleRate
                      >= Length(file.audio) * ContextRate
                /\ (Length(audioBuffer) - 1) * file.audio.sampleRate
                      < Length(file.audio) * ContextRate

C15_Witness ==
    /\ DecodedFile
    /\ file.failure = EncodingError
    /\ error = CouldNotDecode

\* the buffer decodeBase64 gave to trimSilence: the raw PCM buffer, or the
\* container decoder's after the raw PCM attempt failed
TrimInput == IF pcmBuffer # Null THEN pcmBuffer ELSE containerAudio

\* trimSilence has been applied to TrimInput and its result is audioBuffer
Trimmed == DecodedSpeech /\ audioBuffer # Null

\* |sample| >= 0.005 at frame k of channel 0
AtOrAboveThreshold(b, k) == Abs(Sample(b, 0, k)) * 1000 >= 5 * b.den

\* the frames of channel 0 at or above the threshold
LoudFrames(b) == {k \in 0..(Length(b) - 1) : AtOrAboveThreshold(b, k)}

FirstLoud(b) == CHOOSE k \in LoudFrames(b) : \A j \in LoudFrames(b) : k <= j
LastLoud(b) == CHOOSE k \in LoudFrames(b) : \A j \in LoudFrames(b) : k >= j

\* C16: with start the first frame of channel 0 at or above the threshold
\* and end one past the last such frame, if start < end the result of
\* trimSilence has end - start frames, frame i of every channel is frame
\* start + i of the same channel of the input, rate and channel count are
\* unchanged, and the first and the last frame of channel 0 of the result
\* are at or above the threshold.
C16_TrimmedFrames ==
    (Trimmed /\ LoudFrames(TrimInput) # {})
        => LET start == FirstLoud(TrimInput)
               end == LastLoud(TrimInput) + 1
           IN /\ Length(audioBuffer) = end - start
              /\ audioBuffer.sampleRate = TrimInput.sampleRate
              /\ audioBuffer.numberOfChannels = TrimInput.numberOfChannels
              /\ audioBuffer.den = TrimInput.den
              /\ \A c \in 0..(TrimInput.numberOfChannels - 1) :
                    \A i \in 0..(end - start - 1) :
                       Sample(audioBuffer, c, i)
                          = Sample(TrimInput, c, start + i)
              /\ AtOrAboveThreshold(audioBuffer, 0)
              /\ AtOrAboveThreshold(audioBuffer, Length(audioBuffer) - 1)

C16_Witness ==
    /\ Trimmed
    /\ TrimInput.numberOfChannels = 2
    /\ LoudFrames(TrimInput) # {}
    /\ FirstLoud(TrimInput) > 0
    /\ Length(audioBuffer) = Length(TrimInput) - FirstLoud(TrimInput)
    /\ Sample(audioBuffer, 1, 0) = Sample(TrimInput, 1, FirstLoud(TrimInput))

\* a buffer of no frame (no AudioBuffer is one: createBuffer refuses it)
EmptyBuffer ==
    [sampleRate |-> 24000, numberOfChannels |-> 1, den |-> 32768,
     data |-> << <<>> >>]

\* C17: trimSilence of a buffer whose channel 0 is entirely below the
\* threshold, or which is empty, is the buffer itself; the result for a
\* buffer that is not empty is never empty.
C17_SilentUnchanged ==
    /\ trimSilence(EmptyBuffer) = EmptyBuffer
    /\ Trimmed => /\ LoudFrames(TrimInput) = {} => audioBuffer = TrimInput
                  /\ Length(TrimInput) >= 1
                  /\ Length(audioBuffer) >= 1

C17_Witness ==
    /\ Trimmed
    /\ LoudFrames(TrimInput) = {}
    /\ Length(TrimInput) = MaxPcmFrames
    /\ \E k \in 0..(Length(TrimInput) - 1) : Sample(TrimInput, 0, k) # 0
    /\ audioBuffer = TrimInput

\* C18: trimSilence is idempotent: trimming the result of trimSilence
\* again gives a buffer of the same frame count and the same samples.
C18_Idempotent ==
    pc = "trimmedAgain"
        => /\ Length(trimmedAgain) = Length(audioBuffer)
           /\ trimmedAgain = audioBuffer

C18_Witness ==
    /\ pc = "trimmedAgain"
    /\ Length(audioBuffer) < Length(TrimInput)
    /\ Length(audioBuffer) >= 2
    /\ trimmedAgain = audioBuffer

----------------------------------------------------------------------------
(* The preview of App.tsx: playAudio, stopAudio, the seek of the waveform  *)
(* and the cleanup of the component                                        *)

MaxCalls == 3          \* most playAudio calls of a run

\* state.originalBuffer.duration, in ticks
OriginalTicks == Length(originalBuffer) * TicksPerFrame

\* the player: the refs and the state playAudio and stopAudio work on
Player ==
    [started |-> started, sourceNodeRef |-> sourceNodeRef,
     ttsNodesRef |-> ttsNodesRef, isPlaying |-> isPlaying,
     currentTime |-> currentTime]

\* the nodes the refs hold
RefNodes(p) ==
    (IF p.sourceNodeRef = NoNode THEN {} ELSE {p.sourceNodeRef})
        \cup {p.ttsNodesRef[i] : i \in 1..Len(p.ttsNodesRef)}

\* stopAudio(): the nodes of the refs are stopped and disconnected, the
\* refs emptied, setIsPlaying(false)
stopAudio(p) ==
    [p EXCEPT !.started = p.started \ RefNodes(p),
              !.sourceNodeRef = NoNode,
              !.ttsNodesRef = <<>>,
              !.isPlaying = FALSE]

\* bgSource.start(0, startOffset)
BackgroundNode(call, startOffset) ==
    [call |-> call, seg |-> 0, delay |-> 0,
     offset |-> [num |-> startOffset, den |-> 1],
     rate |-> [num |-> 1, den |-> 1]]

\* a segment source whose offset is not scaled by the playback rate
SegmentNode_RealTimeOffset(call, i, startOffset) ==
    LET seg == segments[i]
        playbackRate == ExportRate(seg)
    IN IF seg.startTime < startOffset
       THEN [call |-> call, seg |-> i, delay |-> 0,
             offset |-> [num |-> startOffset - seg.startTime, den |-> 1],
             rate |-> playbackRate]
       ELSE [call |-> call, seg |-> i, delay |-> seg.startTime - startOffset,
             offset |-> [num |-> 0, den |-> 1], rate |-> playbackRate]

\* the source of segment i: source.start(ctx.currentTime, sampleOffset)
\* when seg.start < startOffset, else
\* source.start(startTimeRef.current + seg.start); delay is the time from
\* ctx.currentTime to the start, offset the second argument, in ticks
SegmentNode(call, i, startOffset) ==
    LET seg == segments[i]
        playbackRate == ExportRate(seg)
    IN IF seg.startTime < startOffset
       THEN [call |-> call, seg |-> i, delay |-> 0,
             offset |-> Ratio((startOffset - seg.startTime) * playbackRate.num,
                              playbackRate.den),
             rate |-> playbackRate]
       ELSE [call |-> call, seg |-> i, delay |-> seg.startTime - startOffset,
             offset |-> [num |-> 0, den |-> 1], rate |-> playbackRate]

\* state.segments.forEach: no source for a segment without audio or one
\* that ends before startOffset
RECURSIVE SegmentNodes(_, _, _)
SegmentNodes(call, i, startOffset) ==
    IF i > Len(segments) THEN <<>>
    ELSE IF segments[i].audioBuffer = Null \/ segments[i].endTime < startOffset
    THEN SegmentNodes(call, i + 1, startOffset)
    ELSE <<SegmentNode(call, i, startOffset)>>
            \o SegmentNodes(call, i + 1, startOffset)

\* the nodes playAudio(startOffset) starts
NewNodes(call, startOffset) ==
    LET tts == SegmentNodes(call, 1, startOffset)
    IN {BackgroundNode(call, startOffset)}
          \cup {tts[i] : i \in 1..Len(tts)}

\* playAudio from stopAudio() on: the nodes of the refs are stopped, the
\* background and the segments are started, setIsPlaying(true), and the
\* first updateUI() sets the time, or ends the playing at once when
\* startOffset is the end of the original
Schedule(p, call, startOffset) ==
    LET q == stopAudio(p)
    IN [q EXCEPT !.started = q.started \cup NewNodes(call, startOffset),
                 !.sourceNodeRef = BackgroundNode(call, startOffset),
                 !.ttsNodesRef = SegmentNodes(call, 1, startOffset),
                 !.isPlaying = startOffset < OriginalTicks,
                 !.currentTime = IF startOffset < OriginalTicks
                                 THEN startOffset ELSE 0]

\* the calls that awaited resume() go on, in the order they were made
RECURSIVE Continue(_, _)
Continue(p, pending) ==
    IF pending = <<>> THEN p
    ELSE Continue(Schedule(p, pending[1].call, pending[1].startOffset),
                  Tail(pending))

SetPlayer(p) ==
    /\ started' = p.started
    /\ sourceNodeRef' = p.sourceNodeRef
    /\ ttsNodesRef' = p.ttsNodesRef
    /\ isPlaying' = p.isPlaying
    /\ currentTime' = p.currentTime

\* playAudio(startOffset) up to its first await: it waits for resume()
\* when the context is suspended, else it goes on at once
PlayAudioCall(p, startOffset) ==
    /\ calls < MaxCalls
    /\ calls' = calls + 1
    /\ IF ctxState = "suspended"
       THEN /\ waiting' = Append(waiting, [call |-> calls + 1,
                                           startOffset |-> startOffset])
            /\ SetPlayer(p)
       ELSE /\ waiting' = waiting
            /\ SetPlayer(Schedule(p, calls + 1, startOffset))

\* the times of a click on the waveform, percentage * duration
SeekTimes == {0, 2, OriginalTicks}

previewStatic == <<pc, originalBuffer, segments, backgroundVolume, offlineCtx,
                   renderedBuffer, abuffer, blob, pcmBuffer, decodeVars,
                   retryVars, workflowVars>>

\* the timelines of the preview: segment i in the window [i, i + 2]
PreviewTimelines ==
    {[i \in 1..MaxSegs |->
        [startTime |-> i, endTime |-> i + 2, audioBuffer |-> audio[i]]] :
        audio \in [1..MaxSegs -> SegmentAudio]}

PreviewInit ==
    /\ pc = "preview"
    /\ originalBuffer = PatternBuffer(ContextRate, 2, MaxOrigFrames, 7, 1)
    /\ segments \in PreviewTimelines
    /\ backgroundVolume = 0
    /\ offlineCtx = Null
    /\ renderedBuffer = Null
    /\ abuffer = Null
    /\ blob = <<>>
    /\ pcmBuffer = Null
    /\ DecodeIdle
    /\ RetryIdle
    /\ WorkflowIdle
    /\ mounted = TRUE
    /\ ctxState \in {"suspended", "running"}
    /\ isPlaying = FALSE
    /\ currentTime = 0
    /\ waiting = <<>>
    /\ sourceNodeRef = NoNode
    /\ ttsNodesRef = <<>>
    /\ started = {}
    /\ calls = 0
    /\ lastCommand = NoCommand

\* the button while not playing: playAudio(currentTime)
playAudio ==
    /\ mounted
    /\ ~isPlaying
    /\ PlayAudioCall(Player, currentTime)
    /\ lastCommand' = [op |-> "play", time |-> currentTime]
    /\ UNCHANGED <<previewStatic, mounted, ctxState>>

\* the button while playing: stopAudio()
pause ==
    /\ mounted
    /\ isPlaying
    /\ SetPlayer(stopAudio(Player))
    /\ lastCommand' = [op |-> "stop", time |-> currentTime]
    /\ UNCHANGED <<previewStatic, mounted, ctxState, waiting, calls>>

\* onSeek(t): setCurrentTime(t); if (isPlaying) playAudio(t)
onSeek ==
    /\ mounted
    /\ \E t \in SeekTimes :
          /\ IF isPlaying
             THEN PlayAudioCall([Player EXCEPT !.currentTime = t], t)
             ELSE /\ SetPlayer([Player EXCEPT !.currentTime = t])
                  /\ UNCHANGED <<waiting, calls>>
          /\ lastCommand' = [op |-> IF isPlaying THEN "seek" ELSE "move",
                              time |-> t]
    /\ UNCHANGED <<previewStatic, mounted, ctxState>>

\* the context starts running: every resume() awaited resolves and the
\* waiting calls go on
resume ==
    /\ ctxState = "suspended"
    /\ waiting # <<>>
    /\ ctxState' = "running"
    /\ SetPlayer(Continue(Player, waiting))
    /\ waiting' = <<>>
    /\ UNCHANGED <<previewStatic, mounted, calls, lastCommand>>

\* updateUI on an animation frame: the time goes on, or the original has
\* ended: setIsPlaying(false), setCurrentTime(0), no node is stopped
updateUI ==
    /\ mounted
    /\ isPlaying
    /\ \/ /\ currentTime + 1 < OriginalTicks
          /\ currentTime' = currentTime + 1
          /\ UNCHANGED isPlaying
       \/ /\ isPlaying' = FALSE
          /\ currentTime' = 0
    /\ UNCHANGED <<previewStatic, mounted, ctxState, waiting, sourceNodeRef,
                   ttsNodesRef, started, calls, lastCommand>>

\* the cleanup of the effect: return () => stopAudio()
unmount ==
    /\ mounted
    /\ mounted' = FALSE
    /\ SetPlayer(stopAudio(Player))
    /\ lastCommand' = [op |-> "stop", time |-> currentTime]
    /\ UNCHANGED <<previewStatic, ctxState, waiting, calls>>

PreviewNext == playAudio \/ pause \/ onSeek \/ resume \/ updateUI \/ unmount

SpecPreview == PreviewInit /\ [][PreviewNext]_vars

\* C20: after a stop (the button, or the unmount of the component, even
\* while a playAudio call awaits resume()) no source is started or
\* scheduled; after a seek while playing the sources started are exactly
\* those made for the new time.
C20_NoResidualAudio ==
    pc = "preview"
        => /\ lastCommand.op = "stop" => started = {}
           /\ (lastCommand.op = "seek" /\ isPlaying)
                 => started = NewNodes(calls, lastCommand.time)

----------------------------------------------------------------------------
(* The exported mix and the end of the slots *)

\* the frames of the mix in which the source of segment i sounds
FramesOf(i) ==
    LET first == StartFrame(SourceOf(i), offlineCtx.sampleRate)
    IN {k \in 0..(Length(renderedBuffer) - 1) :
           /\ k >= first
           /\ k < first + PlayFrames(SourceOf(i), offlineCtx.sampleRate)}

\* frame k lies less than one frame after the time
\* start + min(audioDuration, slotDuration) of segment i
BeforeSlotEnd(i, k) ==
    LET r == Ratio(offlineCtx.sampleRate, segments[i].audioBuffer.sampleRate)
    IN (k * TimeDen - segments[i].startTime * offlineCtx.sampleRate - TimeDen)
          * r.den
       < Min(AudioScaled(i), SlotScaled(i)) * r.num

\* C28: in the exported mix every segment with audio starts at its start
\* time with playback rate max(1, audioDuration / slotDuration), never a
\* rate below 1, and sounds in no frame after
\* start + min(audioDuration, slotDuration) (a frame of the mix being the
\* unit); an audio shorter than its slot sounds for its own length.
C28_NoSoundPastSlotEnd ==
    Exported =>
        \A i \in 1..Len(segments) :
            HasAudio(i) =>
                LET src == SourceOf(i)
                IN /\ src.when = segments[i].startTime
                   /\ src.rate.num >= src.rate.den
                   /\ src.rate.num * Min(AudioScaled(i), SlotScaled(i))
                         = src.rate.den * AudioScaled(i)
                   /\ \A k \in FramesOf(i) :
                         /\ k * TimeDen
                               >= segments[i].startTime * offlineCtx.sampleRate
                         /\ BeforeSlotEnd(i, k)
                   /\ Len(offlineCtx.sources) = 1 => SoundingFrames = FramesOf(i)

C28_Witness ==
    /\ Exported
    /\ Len(offlineCtx.sources) = 1
    /\ \E i \in 1..Len(segments) :
          /\ HasAudio(i)
          /\ segments[i].startTime > 0
          /\ AudioScaled(i) > SlotScaled(i)
          /\ FramesOf(i) # {}
          /\ SoundingFrames = FramesOf(i)
          /\ segments[i].endTime * offlineCtx.sampleRate
                < Length(renderedBuffer) * TimeDen

----------------------------------------------------------------------------
(* The preview from an offset *)

\* playAudio has started its sources; the offset of the background is its
\* startOffset
PreviewStarted == pc = "preview" /\ sourceNodeRef # NoNode

PreviewOffset == sourceNodeRef.offset.num

\* the segments playAudio made a source for
NodeSegments == {ttsNodesRef[j].seg : j \in 1..Len(ttsNodesRef)}

\* the time on the timeline at which a node stops sounding, as a rational
\* number of ticks: startOffset + delay + (audioDuration - offset) / rate
NodeEnd(n) ==
    LET a == segments[n.seg].audioBuffer
        played == Ratio(Max(0, Length(a) * TimeDen * n.offset.den
                                  - n.offset.num * a.sampleRate) * n.rate.den,
                        a.sampleRate * n.offset.den * n.rate.num)
    IN Ratio((PreviewOffset + n.delay) * played.den + played.num, played.den)

\* the same in playback from 0: start + audioDuration / rate
EndFromZero(i) ==
    LET a == segments[i].audioBuffer
        r == ExportRate(segments[i])
    IN Ratio(segments[i].startTime * a.sampleRate * r.num
                + Length(a) * TimeDen * r.den,
             a.sampleRate * r.num)

----------------------------------------------------------------------------
(* retryOperation of geminiService: exponential backoff around an API call *)

\* most retries the model gives retryOperation
MaxRetries == 3

\* the delays passed to retryOperation: its default and generateSpeech's
BaseDelays == {1000, 2000}

\* an Error thrown by the operation: status is error.status, responseStatus
\* is error.response.status (0 when absent), message is error.message in words
ApiError(st, rst, msg) ==
    [name |-> "Error", status |-> st, responseStatus |-> rst, message |-> msg]

\* what one invocation of the operation can do
Outcomes ==
    {[ok |-> TRUE, error |-> Undefined]} \cup
    {[ok |-> FALSE, error |-> e] :
        e \in {ApiError(429, 0, <<"Too", "Many", "Requests">>),
               ApiError(503, 0, <<"Service", "Unavailable">>),
               ApiError(0, 429, <<"request", "failed">>),
               ApiError(500, 429, <<"Internal", "error">>),
               ApiError(0, 0, <<"TTS Error:", "429", "-", "slow", "down">>),
               ApiError(0, 0, <<"RESOURCE_EXHAUSTED">>),
               ApiError(0, 0, <<"exceeded", "quota">>),
               ApiError(0, 0, <<"TTS Error:", "503", "-", "overloaded">>),
               ApiError(400, 0, <<"Bad", "Request">>),
               ApiError(0, 0, <<>>)}}

\* error?.status || error?.response?.status
StatusOf(e) == IF e.status # 0 THEN e.status ELSE e.responseStatus

\* isRateLimit: the failures retryOperation takes for transient
isRateLimit(e) ==
    \/ StatusOf(e) = 429
    \/ StatusOf(e) = 503
    \/ Includes(e.message, "429")
    \/ Includes(e.message, "RESOURCE_EXHAUSTED")
    \/ Includes(e.message, "quota")

RECURSIVE Pow2(_)
\* Math.pow(2, i)
Pow2(i) == IF i = 0 THEN 1 ELSE 2 * Pow2(i - 1)

\* a delay that grows by baseDelay with each attempt
Delay_Linear(base, i) == base * (i + 1)

\* delay = baseDelay * Math.pow(2, i)
Delay(base, i) == base * Pow2(i)

\* the call leaves the loop or goes on with attempt i
Loop(r, i) ==
    IF i < maxRetries
    THEN [r EXCEPT !.at = "try", !.i = i]
    ELSE [r EXCEPT !.at = "thrown", !.i = i, !.thrown = r.lastError]

RetryInit ==
    /\ pc = "retry"
    /\ originalBuffer = Null
    /\ segments = <<>>
    /\ backgroundVolume = 0
    /\ offlineCtx = Null
    /\ renderedBuffer = Null
    /\ abuffer = Null
    /\ blob = <<>>
    /\ pcmBuffer = Null
    /\ DecodeIdle
    /\ PreviewIdle
    /\ WorkflowIdle
    /\ maxRetries \in 0..MaxRetries
    /\ operation \in [1..maxRetries -> Outcomes]
    /\ baseDelay \in BaseDelays
    /\ retried = NotRetried

retryStatic == <<pc, originalBuffer, segments, backgroundVolume, offlineCtx,
                 renderedBuffer, abuffer, blob, pcmBuffer, decodeVars,
                 previewVars, workflowVars, operation, maxRetries, baseDelay>>

\* retryOperation is called: the loop begins with i = 0
retryOperation ==
    /\ pc = "retry"
    /\ retried.at = "idle"
    /\ retried' = Loop(retried, 0)
    /\ UNCHANGED retryStatic

\* one attempt: await operation(), and what the catch block makes of a failure
Try ==
    /\ pc = "retry"
    /\ retried.at = "try"
    /\ LET o == operation[retried.invocations + 1]
           r == [retried EXCEPT !.invocations = @ + 1]
       IN retried' =
            IF o.ok
            THEN [r EXCEPT !.at = "returned", !.returned = TRUE]
            ELSE IF ~isRateLimit(o.error)
            THEN [r EXCEPT !.at = "thrown", !.lastError = o.error,
                           !.thrown = o.error]
            ELSE [r EXCEPT !.at = "delay", !.lastError = o.error,
                           !.delays = Append(@, Delay(baseDelay, r.i))]
    /\ UNCHANGED retryStatic

\* the timer of the delay fires: the loop goes on with i + 1
Delayed ==
    /\ pc = "retry"
    /\ retried.at = "delay"
    /\ retried' = Loop(retried, retried.i + 1)
    /\ UNCHANGED retryStatic

RetryNext == retryOperation \/ Try \/ Delayed

SpecRetry == RetryInit /\ [][RetryNext]_vars

RECURSIVE RetryOutcome(_, _, _)
\* how a call of retryOperation(op, max) ends, from attempt i on, when the
\* attempts of the operation come to `op`: the loop as a function
RetryOutcome(op, max, i) ==
    IF i >= max THEN "thrown"
    ELSE IF op[i + 1].ok THEN "returned"
    ELSE IF ~isRateLimit(op[i + 1].error) THEN "thrown"
    ELSE RetryOutcome(op, max, i + 1)

\* the attempts made so far that failed with a transient error
TransientSoFar ==
    {k \in 1..retried.invocations :
        ~operation[k].ok /\ isRateLimit(operation[k].error)}

\* C23: retryOperation invokes the operation at most maxRetries times; a
\* success ends the call with no further invocation; an error that is not
\* rate-limit or unavailable is thrown at once with no delay after it; the
\* delay after the i-th failed attempt is baseDelay * 2^i; after maxRetries
\* transient failures the last error is thrown; and while the call runs,
\* fewer than maxRetries attempts have been made, so it ends
C23_BoundedRetry ==
    pc = "retry" =>
        /\ retried.invocations <= maxRetries
        /\ retried.at \in {"idle", "try", "delay", "returned", "thrown"}
        /\ retried.at \in {"try", "delay"} => retried.i < maxRetries
        /\ retried.at = "try" => retried.invocations = retried.i
        /\ retried.at = "delay" => retried.invocations = retried.i + 1
        /\ \A k \in 1..retried.invocations :
              k < retried.invocations =>
                  ~operation[k].ok /\ isRateLimit(operation[k].error)
        /\ \A k \in 1..Len(retried.delays) :
              /\ k \in TransientSoFar
              /\ retried.delays[k] = baseDelay * (2 ^ (k - 1))
        /\ Len(retried.delays) = Cardinality(TransientSoFar)
        /\ retried.at \in {"returned", "thrown"} =>
              retried.at = RetryOutcome(operation, maxRetries, 0)
        /\ retried.at = "returned" =>
              /\ retried.returned
              /\ operation[retried.invocations].ok
        /\ retried.at = "thrown" =>
              /\ ~retried.returned
              /\ \/ /\ retried.invocations = maxRetries
                    /\ Cardinality(TransientSoFar) = maxRetries
                    /\ retried.thrown =
                          IF maxRetries = 0 THEN Undefined
                          ELSE operation[maxRetries].error
                 \/ /\ retried.invocations >= 1
                    /\ ~operation[retried.invocations].ok
                    /\ ~isRateLimit(operation[retried.invocations].error)
                    /\ retried.thrown = operation[retried.invocations].error
                    /\ Len(retried.delays) = retried.invocations - 1

\* three attempts failed with transient errors of three kinds, each was
\* followed by its delay, and the last error was thrown
C23_Witness ==
    /\ pc = "retry"
    /\ retried.at = "thrown"
    /\ maxRetries = 3
    /\ retried.invocations = 3
    /\ retried.delays = <<baseDelay, 2 * baseDelay, 4 * baseDelay>>
    /\ operation[1].error.status = 503
    /\ operation[2].error.responseStatus = 429
    /\ Includes(operation[3].error.message, "quota")
    /\ retried.thrown = operation[3].error

----------------------------------------------------------------------------
(* The workflow of App: upload, transcribe, translate, dub *)

\* most handler calls awaiting something at one time
MaxRunning == 2

\* the segments of a transcript
MaxLines == 2

\* retryOperation(callApi, 5, 2000): the attempts generateSpeech allows
TtsRetries == 5

\* the files the user chooses: two that decode and one that does not
FileA == [audio |-> PatternBuffer(ContextRate, 1, 2, 4, 1), failure |-> NoError]

FileB == [audio |-> PatternBuffer(ContextRate, 1, 2, 8, 1), failure |-> NoError]

FileX == [audio |-> Null, failure |-> EncodingError]

UploadFiles == {FileA, FileB, FileX}

\* what is said in a file, as the word that opens each of its lines
FileWord(f) == IF f = FileA THEN "A" ELSE IF f = FileB THEN "B" ELSE "X"

LineWord == <<"line1", "line2", "line3", "line4">>

\* a progress value: a percentage, kept exact
Percent(n, d) == Ratio(n, d)

\* the handler calls that await something
Running == uploading \cup transcribing \cup translating \cup dubbing

\* a number for a new call, to tell it from the calls that are running
NewCall == CHOOSE n \in 1..(MaxRunning + 1) : \A h \in Running : h.call # n

\* the model lets a handler be called while fewer than MaxRunning calls run
MayCall == Cardinality(Running) < MaxRunning

\* isProcessing
isProcessing == status \in {"TRANSCRIBING", "TRANSLATING", "GENERATING_AUDIO"}

\* geminiService.transcribeAudio on file f, and handleTranscribe's map over
\* the result: translatedText '' and audioBuffer null
Transcript(f) ==
    [k \in 1..MaxLines |->
        [id |-> k, start |-> 2 * (k - 1), end |-> 2 * k,
         originalText |-> <<FileWord(f), LineWord[k]>>,
         duration |-> 2, translatedText |-> <<>>, audioBuffer |-> Null]]

\* what transcribeAudio can come to: the transcript or a thrown error
Transcriptions(f) ==
    {[ok |-> TRUE, segments |-> Transcript(f), message |-> <<>>],
     [ok |-> FALSE, segments |-> <<>>,
      message |-> <<"Unexpected token in JSON">>]}

\* the text a translation gives for a line
TranslationOf(seg) == <<"translated">> \o seg.originalText

\* what translateAllSegments can come to: every line translated, the first
\* line given an empty text and the last line left out, or a thrown error
Translations(segs) ==
    {[ok |-> TRUE, message |-> <<>>,
      translated |-> [k \in 1..Len(segs) |->
                        [id |-> segs[k].id,
                         translatedText |-> TranslationOf(segs[k])]]],
     [ok |-> TRUE, message |-> <<>>,
      translated |-> [k \in 1..(Len(segs) - 1) |->
                        [id |-> segs[k].id,
                         translatedText |-> IF k = 1 THEN <<>>
                                            ELSE TranslationOf(segs[k])]]],
     [ok |-> FALSE, translated |-> <<>>,
      message |-> <<"Unexpected token in JSON">>]}

\* translatedSegments.find(t => t.id === seg.id): the index of the first
\* match, 0 when there is none
Find(translated, id) ==
    IF \E j \in 1..Len(translated) : translated[j].id = id
    THEN CHOOSE j \in 1..Len(translated) :
            /\ translated[j].id = id
            /\ \A h \in 1..(j - 1) : translated[h].id # id
    ELSE 0

\* a merge that drops the segments left without a translation
MergeTranslations_DropMissing(segs, translated) ==
    SelectSeq([k \in 1..Len(segs) |->
                  [segs[k] EXCEPT !.translatedText =
                      IF Find(translated, segs[k].id) # 0
                      THEN translated[Find(translated, segs[k].id)].translatedText
                      ELSE <<>>]],
              LAMBDA seg : Find(translated, seg.id) # 0)

\* handleTranslate: state.segments.map(seg => ({...seg, translatedText: ...}))
MergeTranslations(segs, translated) ==
    [k \in 1..Len(segs) |->
        [segs[k] EXCEPT !.translatedText =
            IF Find(translated, segs[k].id) # 0
            THEN translated[Find(translated, segs[k].id)].translatedText
            ELSE segs[k].originalText]]

\* callApi resolves with the audio of the answer
Spoken == [ok |-> TRUE, error |-> Undefined]

\* callApi: throw new Error(`TTS Error: ${response.status} - ${err}`)
TtsError(st) ==
    [ok |-> FALSE, error |-> ApiError(0, 0, <<"TTS Error:", st, "-", "body">>)]

\* callApi: throw new Error("API returned no audio data.")
NoAudioData ==
    [ok |-> FALSE, error |-> ApiError(0, 0, <<"API returned no audio data.">>)]

\* speech of two loud samples, and speech with an odd number of bytes
GoodSpeech == btoa(PcmBytes(<<164, -164>>))

OddSpeech == btoa(PcmBytes(<<164>>) \o <<1>>)

\* what the speech API does for one segment: the outcomes of the attempts
\* of callApi and the audio data of the answer
SpeechAnswers ==
    {[attempts |-> <<TtsError("429"), Spoken>>, data |-> GoodSpeech],
     [attempts |-> <<Spoken>>, data |-> OddSpeech],
     [attempts |-> [k \in 1..TtsRetries |-> TtsError("429")], data |-> <<>>],
     [attempts |-> <<TtsError("500")>>, data |-> <<>>],
     [attempts |-> <<TtsError("429"), NoAudioData>>, data |-> <<>>]}

\* generateSpeech: try { return await retryOperation(callApi, 5, 2000) }
\* catch { return null }; null is the empty text here
generateSpeech(answer) ==
    IF RetryOutcome(answer.attempts, TtsRetries, 0) = "returned"
    THEN answer.data
    ELSE <<>>

\* err.message || fallback
MessageOr(message, fallback) == IF message = <<>> THEN fallback ELSE message

WorkflowInit ==
    /\ pc = "workflow"
    /\ originalBuffer = Null
    /\ segments = <<>>
    /\ backgroundVolume = 0
    /\ offlineCtx = Null
    /\ renderedBuffer = Null
    /\ abuffer = Null
    /\ blob = <<>>
    /\ pcmBuffer = Null
    /\ DecodeIdle
    /\ PreviewIdle
    /\ RetryIdle
    /\ WorkflowIdle

workflowStatic == <<pc, backgroundVolume, offlineCtx, renderedBuffer, abuffer,
                    blob, pcmBuffer, base64Data, containerAudio, attempts,
                    audioBuffer, error, trimmedAgain, previewVars, retryVars>>

\* the file input, enabled unless isProcessing: handleFileUpload up to its
\* await of decodeFile
handleFileUpload ==
    /\ pc = "workflow"
    /\ ~isProcessing
    /\ MayCall
    /\ \E f \in UploadFiles :
          /\ file' = f
          /\ uploading' = uploading \cup {[call |-> NewCall, file |-> f]}
    /\ status' = "UPLOADING"
    /\ stateError' = <<>>
    /\ progress' = Percent(10, 1)
    /\ UNCHANGED <<workflowStatic, originalBuffer, segments, transcribing,
                   translating, dubbing>>

\* decodeFile settles: the rest of handleFileUpload
uploaded ==
    /\ pc = "workflow"
    /\ \E u \in uploading :
          LET r == decodeFileResult(u.file)
          IN /\ uploading' = uploading \ {u}
             /\ IF r.error = NoError
                THEN /\ originalBuffer' = r.buffer
                     /\ status' = "IDLE"
                     /\ progress' = Percent(0, 1)
                     /\ segments' = <<>>
                     /\ UNCHANGED stateError
                ELSE /\ status' = "ERROR"
                     /\ stateError' =
                           MessageOr(r.error.message,
                                     <<"Failed to load audio file. Please try a standard MP3/WAV.">>)
                     /\ UNCHANGED <<originalBuffer, progress, segments>>
    /\ UNCHANGED <<workflowStatic, file, transcribing, translating, dubbing>>

\* the Transcribe button, shown when status is IDLE and a file is chosen:
\* handleTranscribe up to its awaits
handleTranscribe ==
    /\ pc = "workflow"
    /\ status = "IDLE"
    /\ file # NoFile
    /\ originalBuffer # Null
    /\ MayCall
    /\ status' = "TRANSCRIBING"
    /\ progress' = Percent(10, 1)
    /\ stateError' = <<>>
    /\ transcribing' = transcribing \cup {[call |-> NewCall, file |-> file]}
    /\ UNCHANGED <<workflowStatic, file, originalBuffer, segments, uploading,
                   translating, dubbing>>

\* transcribeAudio settles: the rest of handleTranscribe
transcribed ==
    /\ pc = "workflow"
    /\ \E t \in transcribing : \E r \in Transcriptions(t.file) :
          /\ transcribing' = transcribing \ {t}
          /\ IF r.ok
             THEN /\ status' = "TRANSCRIBED"
                  /\ segments' = r.segments
                  /\ progress' = Percent(100, 1)
                  /\ UNCHANGED stateError
             ELSE /\ status' = "ERROR"
                  /\ stateError' = MessageOr(r.message, <<"Transcription failed.">>)
                  /\ UNCHANGED <<segments, progress>>
    /\ UNCHANGED <<workflowStatic, file, originalBuffer, uploading,
                   translating, dubbing>>

\* the Translate button, shown when status is TRANSCRIBED or TRANSLATING and
\* disabled while TRANSLATING: handleTranslate up to its await
handleTranslate ==
    /\ pc \in {"workflow", "timeline"}
    /\ status = "TRANSCRIBED"
    /\ MayCall
    /\ status' = "TRANSLATING"
    /\ progress' = Percent(20, 1)
    /\ stateError' = <<>>
    /\ translating' = translating \cup {[call |-> NewCall, segs |-> segments]}
    /\ UNCHANGED <<workflowStatic, file, originalBuffer, segments, uploading,
                   transcribing, dubbing>>

\* translateAllSegments settles: the rest of handleTranslate
translated ==
    /\ pc \in {"workflow", "timeline"}
    /\ \E t \in translating : \E r \in Translations(t.segs) :
          /\ translating' = translating \ {t}
          /\ IF r.ok
             THEN /\ status' = "TRANSLATED"
                  /\ segments' = MergeTranslations(t.segs, r.translated)
                  /\ progress' = Percent(100, 1)
                  /\ UNCHANGED stateError
             ELSE /\ status' = "ERROR"
                  /\ stateError' = MessageOr(r.message, <<"Translation failed.">>)
                  /\ UNCHANGED <<segments, progress>>
    /\ UNCHANGED <<workflowStatic, file, originalBuffer, uploading,
                   transcribing, dubbing>>

\* the loop of handleDubbing comes to iteration d.i and runs to its next
\* await: the call of generateSpeech, the sleep after a segment with no
\* text, or the end of the loop.  `others` are the other calls, st and pr the
\* status and progress set before
Iterate(d, others, st, pr) ==
    IF d.i >= Len(d.segs)
    THEN /\ dubbing' = others
         /\ segments' = d.segs
         /\ status' = "READY"
         /\ progress' = Percent(100, 1)
    ELSE IF d.segs[d.i + 1].translatedText # <<>>
    THEN /\ dubbing' = others \cup {[d EXCEPT !.at = "speech"]}
         /\ status' = st
         /\ progress' = pr
         /\ UNCHANGED segments
    ELSE /\ dubbing' = others \cup {[d EXCEPT !.at = "sleep"]}
         /\ segments' = d.segs
         /\ status' = st
         /\ progress' = Percent((d.i + 1) * 100, Len(d.segs))

\* the Dub button, shown when status is TRANSLATED, GENERATING_AUDIO or READY
\* and disabled while GENERATING_AUDIO: handleDubbing up to its first await
handleDubbing ==
    /\ pc \in {"workflow", "timeline"}
    /\ status \in {"TRANSLATED", "READY"}
    /\ MayCall
    /\ Iterate([call |-> NewCall, from |-> segments, segs |-> segments,
                i |-> 0, at |-> "begin", failed |-> {}],
               dubbing, "GENERATING_AUDIO", Percent(0, 1))
    /\ stateError' = <<>>
    /\ UNCHANGED <<workflowStatic, file, originalBuffer, uploading,
                   transcribing, translating>>

\* generateSpeech settles: decodeBase64 of the answer, the audio attached to
\* the segment, setState and the call of sleep; or the catch block
spoken ==
    /\ pc \in {"workflow", "timeline"}
    /\ \E d \in dubbing : \E answer \in SpeechAnswers :
          LET audioB64 == generateSpeech(answer)
              r == decodeBase64Result(audioB64, Null)
              after ==
                  IF audioB64 = <<>>
                  THEN [d EXCEPT !.at = "sleep", !.failed = @ \cup {d.i + 1}]
                  ELSE [d EXCEPT !.at = "sleep",
                                 !.segs[d.i + 1].audioBuffer = r.buffer]
          IN /\ d.at = "speech"
             /\ IF audioB64 # <<>> /\ r.error # NoError
                THEN /\ dubbing' = dubbing \ {d}
                     /\ status' = "ERROR"
                     /\ stateError' = MessageOr(r.error.message, <<"Dubbing failed.">>)
                     /\ UNCHANGED <<segments, progress>>
                ELSE /\ dubbing' = (dubbing \ {d}) \cup {after}
                     /\ segments' = after.segs
                     /\ progress' = Percent((d.i + 1) * 100, Len(d.segs))
                     /\ UNCHANGED <<status, stateError>>
    /\ UNCHANGED <<workflowStatic, file, originalBuffer, uploading,
                   transcribing, translating>>

\* await sleep(1000) is over: i++ and the next iteration
slept ==
    /\ pc \in {"workflow", "timeline"}
    /\ \E d \in dubbing :
          /\ d.at = "sleep"
          /\ Iterate([d EXCEPT !.i = @ + 1], dubbing \ {d}, status, progress)
    /\ UNCHANGED <<workflowStatic, file, originalBuffer, stateError, uploading,
                   transcribing, translating>>

WorkflowNext ==
    \/ handleFileUpload
    \/ uploaded
    \/ handleTranscribe
    \/ transcribed
    \/ handleTranslate
    \/ translated
    \/ handleDubbing
    \/ spoken
    \/ slept

SpecWorkflow == WorkflowInit /\ [][WorkflowNext]_vars

\* the translate and dub steps on their own: a file has been uploaded and
\* transcribed, and no other file is chosen while the steps run
TimelineInit ==
    /\ pc = "timeline"
    /\ backgroundVolume = 0
    /\ offlineCtx = Null
    /\ renderedBuffer = Null
    /\ abuffer = Null
    /\ blob = <<>>
    /\ pcmBuffer = Null
    /\ base64Data = <<>>
    /\ containerAudio = Null
    /\ attempts = <<>>
    /\ audioBuffer = Null
    /\ error = NoError
    /\ trimmedAgain = Null
    /\ PreviewIdle
    /\ RetryIdle
    /\ file \in {FileA, FileB}
    /\ originalBuffer = decodeFileResult(file).buffer
    /\ segments = Transcript(file)
    /\ status = "TRANSCRIBED"
    /\ progress = Percent(100, 1)
    /\ stateError = <<>>
    /\ uploading = {}
    /\ transcribing = {}
    /\ translating = {}
    /\ dubbing = {}

TimelineNext ==
    \/ handleTranslate
    \/ translated
    \/ handleDubbing
    \/ spoken
    \/ slept

SpecTimeline == TimelineInit /\ [][TimelineNext]_vars

----------------------------------------------------------------------------
(* Properties of the workflow *)

\* C21: when the audio synthesized for a segment cannot be decoded, the
\* failure stays with that segment: the workflow is never put into ERROR
\* with the message of decodeBase64's failure
C21_DecodeFailureStaysLocal ==
    pc = "workflow" =>
        ~(status = "ERROR" /\ stateError = FailedToDecode.message)

\* the handleDubbing calls that end in this step
EndingLoops == {d \in dubbing : \A e \in dubbing' : e.call # d.call}

\* C22: a handleDubbing call in which the synthesis of a segment failed
\* (generateSpeech gave null) leaves that segment without audio and, when
\* the call ends, leaves the workflow in READY
C22_SynthesisFailureEndsReady ==
    [][\A d \in EndingLoops :
          d.failed # {} =>
              /\ status' = "READY"
              /\ \A k \in d.failed : segments'[k].audioBuffer = Null]_vars

\* the segment list `after` is `before` with nothing but translatedText
\* changed, each text being the first returned translation with the id of
\* its segment, or originalText when none was returned
Translated(before, after, returned) ==
    /\ Len(after) = Len(before)
    /\ \A k \in 1..Len(before) :
          /\ after[k] = [before[k] EXCEPT !.translatedText = after[k].translatedText]
          /\ LET same == {j \in 1..Len(returned) : returned[j].id = before[k].id}
             IN IF same = {}
                THEN after[k].translatedText = before[k].originalText
                ELSE \E j \in same :
                        /\ \A h \in same : j <= h
                        /\ after[k].translatedText = returned[j].translatedText

\* the segment list `after` is `before` with nothing but audioBuffer changed
Dubbed(before, after) ==
    /\ Len(after) = Len(before)
    /\ \A k \in 1..Len(before) :
          after[k] = [before[k] EXCEPT !.audioBuffer = after[k].audioBuffer]

\* C25: the segment list handleTranslate sets is the list it was called on
\* with only translatedText changed (to the returned translation with the
\* same id, else to originalText), and every segment list handleDubbing sets
\* is the list it was called on with only audioBuffer changed: same length,
\* same order, same id, start, end and originalText
C25_TimelineKept ==
    [][/\ \A t \in translating \ translating' :
             status' = "TRANSLATED" =>
                 \E r \in Translations(t.segs) :
                     r.ok /\ Translated(t.segs, segments', r.translated)
       /\ \A d \in dubbing \ dubbing' :
             segments' # segments => Dubbed(d.from, segments')]_vars

\* a dubbed timeline whose first line was translated to the empty text and
\* got no audio and whose last line, left out of the translation, kept its
\* original text and got audio
C25_Witness ==
    /\ pc = "timeline"
    /\ status = "READY"
    /\ Len(segments) >= 2
    /\ segments[1].translatedText = <<>>
    /\ segments[1].audioBuffer = Null
    /\ segments[Len(segments)].translatedText = segments[Len(segments)].originalText
    /\ segments[Len(segments)].audioBuffer # Null
    /\ \A k \in 1..Len(segments) : segments[k].id = k

\* C24: at most one synthesis call is in flight at any time, and progress
\* is 100 when the status is READY
C24_OneCallInFlight ==
    pc = "workflow" =>
        /\ Cardinality({d \in dubbing : d.at = "speech"}) <= 1
        /\ status = "READY" => progress = Percent(100, 1)

\* C26: no step is started while another step is running: at most one of
\* handleTranscribe, handleTranslate and handleDubbing is awaiting
C26_OneStepAtATime ==
    pc = "workflow" =>
        Cardinality(transcribing \cup translating \cup dubbing) <= 1

\* C27: when the status is not UPLOADING, a non-null originalBuffer is the
\* decoded audio of state.file and every segment was produced for that file
C27_FileBufferSegments ==
    (pc = "workflow" /\ status # "UPLOADING" /\ originalBuffer # Null) =>
        /\ originalBuffer = decodeFileResult(file).buffer
        /\ \A k \in 1..Len(segments) :
              segments[k].originalText[1] = FileWord(file)

====
